---- MODULE Spec2Model ----
(***************************************************************************)
(* A model of the S3 Vectors MCP server (src/s3-vectors-mcp-server): the   *)
(* pydantic request models of models.py, the helpers of helpers.py with    *)
(* their module-level state, and the tools of server.py; and of the import *)
(* and the tools of the simplified server (src/s3-vectors-mcp).            *)
(*                                                                         *)
(* A Python value is a tagged record.  A Python string is a sequence of    *)
(* lexemes: a lexeme is either one character, written by a representative  *)
(* of its character class ("z": a lowercase letter that is no hex digit,   *)
(* "f": a lowercase hex letter, "0": a digit, "F": an uppercase hex        *)
(* letter, "Z": another uppercase letter, "-", ".", "/", "*"), or a        *)
(* literal run of characters that no pattern looks into ("--k", "put").    *)
(***************************************************************************)
EXTENDS Integers, Sequences, FiniteSets, TLC

VARIABLES
    pc,                                 \* "start" | "serving" | "crashed": has server.py been imported
    environ,                            \* os.environ: AWS_REGION, AWS_PROFILE, DEBUG_FLAG
    s3_vectors_client,                  \* helpers._s3_vectors_client
    s3_vectors_global_config,           \* helpers._s3_vectors_global_config (server.S3_VECTORS_GLOBAL_CONFIG is the same list object)
    s3_vectors_query_optional_config,   \* helpers._s3_vectors_query_optional_config
    nqueries,                           \* calls of get_s3vectors_query_optional_config so far
    last,                               \* what the latest tool invocation did and returned
    kw,                                 \* keyword arguments given to a request model's constructor
    built,                              \* the outcome of that construction
    sessions,                           \* boto3 sessions built so far by get_s3_vectors_client
    tasks,                              \* the tool invocations handed to the event loop, each with its position
    nglobal,                            \* calls of get_s3vectors_cli_global_config so far
    simple_server                       \* the module state of the simplified server (src/s3-vectors-mcp): FastMCP, mcp, its tools

vars == <<pc, environ, s3_vectors_client, s3_vectors_global_config,
          s3_vectors_query_optional_config, nqueries, last, kw, built, sessions, tasks,
          nglobal, simple_server>>

procvars == <<s3_vectors_client, s3_vectors_global_config, s3_vectors_query_optional_config>>

servervars == <<pc, environ, s3_vectors_client, s3_vectors_global_config,
                s3_vectors_query_optional_config, nqueries, last, sessions, tasks,
                nglobal, simple_server>>

-----------------------------------------------------------------------------
(* Bounds of the model *)

\* longest name drawn as a vectorBucketName / indexName
MaxNameLen == 65

\* embed_and_query invocations that reach get_s3vectors_query_optional_config in one run
MaxQueries == 2

\* tool invocations handed to the event loop at once
MaxTasks == 3

-----------------------------------------------------------------------------
(* Python values *)

S(s) == [t |-> "str", s |-> s]
L(x) == S(<<x>>)
PyNone == [t |-> "none"]
PyBool(b) == [t |-> "bool", b |-> b]
PyInt(n) == [t |-> "int", n |-> n]
PyDict(f) == [t |-> "dict", d |-> f]
EmptyFn == [k \in {} |-> PyNone]

IsStr(v) == v.t = "str"
IsDict(v) == v.t = "dict"

\* bool(v)
Truthy(v) ==
    CASE v.t = "none" -> FALSE
      [] v.t = "str"  -> Len(v.s) > 0
      [] v.t = "bool" -> v.b
      [] v.t = "int"  -> v.n # 0
      [] v.t = "dict" -> DOMAIN v.d # {}

\* dict.get(key): None when the key is missing
Get(f, key) == IF key \in DOMAIN f THEN f[key] ELSE PyNone

\* dict.get(key, default)
GetOr(f, key, default) == IF key \in DOMAIN f THEN f[key] ELSE default

Rep(c, n) == [i \in 1..n |-> c]

Min(a, b) == IF a < b THEN a ELSE b

-----------------------------------------------------------------------------
(* consts.py *)

LowerAlnum == {"z", "f", "0"}           \* [a-z0-9]
Digit == {"0"}                          \* \d
HexOrHyphen == {"0", "f", "F", "-"}     \* [0-9a-fA-F-]

\* VECTOR_BUCKET_NAME_PATTERN = r'[a-z0-9][a-z0-9-]{1,61}[a-z0-9]', as pydantic's
\* Field(pattern=...) applies it: the pattern carries no anchors and the value is
\* accepted when the pattern matches somewhere in it.
VECTOR_BUCKET_NAME_PATTERN(s) ==
    \E i \in 1..Len(s) :
        /\ s[i] \in LowerAlnum
        /\ \E j \in (i + 2)..Min(i + 62, Len(s)) :
              /\ s[j] \in LowerAlnum
              /\ \A m \in (i + 1)..(j - 1) : s[m] \in LowerAlnum \cup {"-"}

\* VECTOR_INDEX_NAME_PATTERN = '^[a-z0-9](?:[a-z0-9.-]{1,61}[a-z0-9])?$'
VECTOR_INDEX_NAME_PATTERN(s) ==
    /\ Len(s) >= 1
    /\ s[1] \in LowerAlnum
    /\ \/ Len(s) = 1
       \/ /\ Len(s) - 2 >= 1
          /\ Len(s) - 2 <= 61
          /\ s[Len(s)] \in LowerAlnum
          /\ \A m \in 2..(Len(s) - 1) : s[m] \in LowerAlnum \cup {".", "-"}

AES256 == L("AES256")
AWS_KMS == L("aws:kms")
VALID_S3_SSE_TYPES == {AES256, AWS_KMS}

AWS_S3_BUCKET_ENCRYPTION_CONFIGURATION == [sseType |-> AES256]

\* VALID_S3_KMS_ARN = r'^arn:aws:kms:[a-z0-9-]+:\d{12}:key/[0-9a-fA-F-]{36}$', applied with
\* re.match.  "arn:aws:kms:", ":" and ":key/" are lexemes of the ARN strings drawn here.
VALID_S3_KMS_ARN(s) ==
    /\ Len(s) >= 1
    /\ s[1] = "arn:aws:kms:"
    /\ \E r \in 1..(Len(s) - 1) :
          /\ \A m \in 2..(r + 1) : s[m] \in LowerAlnum \cup {"-"}
          /\ Len(s) = 1 + r + 1 + 12 + 1 + 36
          /\ s[r + 2] = ":"
          /\ \A m \in (r + 3)..(r + 14) : s[m] \in Digit
          /\ s[r + 15] = ":key/"
          /\ \A m \in (r + 16)..(r + 51) : s[m] \in HexOrHyphen

VALID_DISTANCE_METRICS == {L("euclidean"), L("cosine")}

TEXT_EMBEDDING_MODELS ==
    <<L("amazon.titan-embed-text-v2:0"), L("amazon.titan-embed-text-v1"),
      L("cohere.embed-english-v3"), L("cohere.embed-multilingual-v3")>>

IMAGE_EMBEDDING_MODELS == <<L("amazon.titan-embed-image-v1")>>

TEXT_FILE_EXTENSIONS == {<<".", "txt">>, <<".", "pdf">>, <<".", "doc">>, <<".", "docx">>, <<".", "md">>}

IMAGE_FILE_EXTENSIONS ==
    {<<".", "jpg">>, <<".", "jpeg">>, <<".", "png">>, <<".", "gif">>, <<".", "bmp">>,
     <<".", "tiff">>, <<".", "webp">>}

MODALITIES == <<L("text"), L("image")>>

OUTPUT_FORMATS == <<L("json"), L("table")>>

Range(q) == {q[i] : i \in DOMAIN q}

-----------------------------------------------------------------------------
(* models.py: results of constructing a request model *)

Ok(v) == [ok |-> TRUE, val |-> v]
ValidationError == [ok |-> FALSE, err |-> "ValidationError"]
NotBuilt == [ok |-> FALSE, err |-> "not constructed"]

\* Field(pattern=VECTOR_BUCKET_NAME_PATTERN) on a required str field
vectorBucketName_ok(k) ==
    /\ "vectorBucketName" \in DOMAIN k
    /\ IsStr(k.vectorBucketName)
    /\ VECTOR_BUCKET_NAME_PATTERN(k.vectorBucketName.s)

\* a variant that forgets the lower bound
check_length_no_lower_bound(v) == Len(v) <= 63

\* @field_validator('indexName') check_length, the same in every model that has the field
check_length(v) == 3 <= Len(v) /\ Len(v) <= 63

\* Field(pattern=VECTOR_INDEX_NAME_PATTERN) on a required str field, then check_length
indexName_ok(k) ==
    /\ "indexName" \in DOMAIN k
    /\ IsStr(k.indexName)
    /\ VECTOR_INDEX_NAME_PATTERN(k.indexName.s)
    /\ check_length(k.indexName.s)

\* VECTOR_BUCKET_ARN_PATTERN = r'^arn:aws:s3vector:[a-z0-9-]+:\d{12}:bucket/[a-zA-Z0-9.\-_]{3,63}$'
\* "arn:aws:s3vector:", ":" and ":bucket/" are lexemes of the ARN strings drawn here.
VECTOR_BUCKET_ARN_PATTERN(s) ==
    /\ Len(s) >= 1
    /\ s[1] = "arn:aws:s3vector:"
    /\ \E r \in 1..(Len(s) - 1) :
          /\ \A m \in 2..(r + 1) : s[m] \in LowerAlnum \cup {"-"}
          /\ Len(s) >= r + 15 + 3
          /\ Len(s) <= r + 15 + 63
          /\ s[r + 2] = ":"
          /\ \A m \in (r + 3)..(r + 14) : s[m] \in Digit
          /\ s[r + 15] = ":bucket/"
          /\ \A m \in (r + 16)..Len(s) : s[m] \in LowerAlnum \cup {"F", "Z", ".", "-", "_"}

\* Optional[str] = Field(pattern=VECTOR_BUCKET_ARN_PATTERN, default=None)
vectorBucketArn_ok(k) ==
    \/ "vectorBucketArn" \notin DOMAIN k
    \/ k.vectorBucketArn = PyNone
    \/ /\ IsStr(k.vectorBucketArn)
       /\ VECTOR_BUCKET_ARN_PATTERN(k.vectorBucketArn.s)

\* Optional[int], Optional[bool], Optional[str] fields given explicitly
opt_ok(k, name, type) == name \in DOMAIN k => k[name].t \in {"none", type}

\* a required field of the given type
req_ok(k, name, type) == name \in DOMAIN k /\ k[name].t = type

\* Literal[...] with a default
literal_ok(k, name, allowed) == name \in DOMAIN k => k[name] \in allowed

\* class Pagination: next_token: Optional[str] = Field(default=None, alias='nextToken');
\* the validated nested model, as .dict() gives it (field names, not aliases)
Pagination(d) == [next_token |-> Get(d, "nextToken")]

\* nextToken: Optional[Pagination]
nextToken_ok(k) ==
    "nextToken" \in DOMAIN k =>
        \/ k.nextToken = PyNone
        \/ /\ IsDict(k.nextToken)
           /\ Get(k.nextToken.d, "nextToken").t \in {"none", "str"}

nextToken_val(k) ==
    IF "nextToken" \in DOMAIN k /\ IsDict(k.nextToken)
    THEN PyDict(Pagination(k.nextToken.d))
    ELSE PyNone

-----------------------------------------------------------------------------
(* models.py: S3 Vector Bucket classes *)

\* CreateVectorBucketRequest._validate_encryption, a @model_validator(mode='before'):
\* `values` is the whole mapping of constructor arguments, not the encryptionConfiguration field
_validate_encryption(values) ==
    IF DOMAIN values = {}
    THEN [raised |-> FALSE, values |-> AWS_S3_BUCKET_ENCRYPTION_CONFIGURATION]
    ELSE LET sse == GetOr(values, "sseType", AES256)
             arn == Get(values, "kmsKeyArn")
             normalized == [x \in DOMAIN values \cup {"sseType"} |->
                              IF x = "sseType" THEN sse ELSE values[x]]
         IN  IF sse \notin VALID_S3_SSE_TYPES
             THEN [raised |-> TRUE, values |-> values]
             ELSE IF sse = AWS_KMS /\ ~Truthy(arn)
             THEN [raised |-> TRUE, values |-> values]
             ELSE IF sse = AWS_KMS /\ (~IsStr(arn) \/ ~VALID_S3_KMS_ARN(arn.s))
             THEN [raised |-> TRUE, values |-> values]
             ELSE [raised |-> FALSE, values |-> normalized]

\* class CreateVectorBucketRequest
CreateVectorBucketRequest(k) ==
    LET before == _validate_encryption(k)
        v == before.values
    IN  IF before.raised THEN ValidationError
        ELSE IF /\ vectorBucketName_ok(v)
                /\ "encryptionConfiguration" \in DOMAIN v => IsDict(v.encryptionConfiguration)
        THEN Ok([vectorBucketName |-> v.vectorBucketName,
                 encryptionConfiguration |->
                     GetOr(v, "encryptionConfiguration",
                           PyDict(AWS_S3_BUCKET_ENCRYPTION_CONFIGURATION))])
        ELSE ValidationError

\* class GetVectorBucketRequest
GetVectorBucketRequest(k) ==
    IF vectorBucketName_ok(k) /\ vectorBucketArn_ok(k)
    THEN Ok([vectorBucketName |-> k.vectorBucketName,
             vectorBucketArn |-> Get(k, "vectorBucketArn")])
    ELSE ValidationError

\* class ListVectorBucketRequest
ListVectorBucketRequest(k) ==
    IF opt_ok(k, "maxResults", "int") /\ nextToken_ok(k) /\ opt_ok(k, "prefix", "str")
    THEN Ok([maxResults |-> Get(k, "maxResults"),
             nextToken |-> nextToken_val(k),
             prefix |-> Get(k, "prefix")])
    ELSE ValidationError

-----------------------------------------------------------------------------
(* models.py: S3 Vector Index classes *)

\* a variant whose default marks only the content key as non-filterable
DEFAULT_METADATA_CONFIGURATION_content_only ==
    PyDict([nonFilterableMetadataKeys |-> <<L("S3VECTORS-EMBED-SRC-CONTENT")>>])

DEFAULT_METADATA_CONFIGURATION ==
    PyDict([nonFilterableMetadataKeys |->
              <<L("S3VECTORS-EMBED-SRC-CONTENT"), L("S3VECTORS-EMBED-SRC-LOCATION")>>])

\* class CreateIndexRequest
CreateIndexRequest(k) ==
    IF /\ vectorBucketName_ok(k)
       /\ vectorBucketArn_ok(k)
       /\ indexName_ok(k)
       /\ req_ok(k, "dimension", "int")
       /\ k.dimension.n >= 1
       /\ k.dimension.n <= 4096
       /\ opt_ok(k, "dataType", "str")
       /\ opt_ok(k, "distanceMetric", "str")
       /\ opt_ok(k, "metadataConfiguration", "dict")
    THEN Ok([vectorBucketName |-> k.vectorBucketName,
             vectorBucketArn |-> Get(k, "vectorBucketArn"),
             indexName |-> k.indexName,
             dimension |-> k.dimension,
             dataType |-> GetOr(k, "dataType", L("float32")),
             distanceMetric |-> GetOr(k, "distanceMetric", L("cosine")),
             metadataConfiguration |->
                 GetOr(k, "metadataConfiguration", DEFAULT_METADATA_CONFIGURATION)])
    ELSE ValidationError

\* class GetIndexRequest
GetIndexRequest(k) ==
    IF vectorBucketName_ok(k) /\ indexName_ok(k)
    THEN Ok([vectorBucketName |-> k.vectorBucketName, indexName |-> k.indexName])
    ELSE ValidationError

\* class ListIndexesRequest
ListIndexesRequest(k) ==
    IF /\ vectorBucketName_ok(k)
       /\ vectorBucketArn_ok(k)
       /\ opt_ok(k, "maxResults", "int")
       /\ nextToken_ok(k)
       /\ opt_ok(k, "prefix", "str")
    THEN Ok([vectorBucketName |-> k.vectorBucketName,
             vectorBucketArn |-> Get(k, "vectorBucketArn"),
             maxResults |-> Get(k, "maxResults"),
             nextToken |-> nextToken_val(k),
             prefix |-> Get(k, "prefix")])
    ELSE ValidationError

-----------------------------------------------------------------------------
(* models.py: S3 Vectors classes *)

\* class ListVectorsRequest: maxResults and nextToken are declared with Field(description=...)
\* and no default, so the constructor requires them (None is an allowed value)
ListVectorsRequest(k) ==
    IF /\ vectorBucketName_ok(k)
       /\ indexName_ok(k)
       /\ "maxResults" \in DOMAIN k
       /\ opt_ok(k, "maxResults", "int")
       /\ "nextToken" \in DOMAIN k
       /\ nextToken_ok(k)
       /\ opt_ok(k, "segmentCount", "int")
       /\ opt_ok(k, "segmentIndex", "int")
       /\ opt_ok(k, "returnData", "bool")
       /\ opt_ok(k, "returnMetadata", "bool")
    THEN Ok([vectorBucketName |-> k.vectorBucketName,
             indexName |-> k.indexName,
             maxResults |-> k.maxResults,
             nextToken |-> nextToken_val(k),
             segmentCount |-> Get(k, "segmentCount"),
             segmentIndex |-> Get(k, "segmentIndex"),
             returnData |-> Get(k, "returnData"),
             returnMetadata |-> Get(k, "returnMetadata")])
    ELSE ValidationError

\* class EmbedAndStoreTextRequest
EmbedAndStoreTextRequest(k) ==
    IF /\ vectorBucketName_ok(k)
       /\ indexName_ok(k)
       /\ literal_ok(k, "modelId", Range(TEXT_EMBEDDING_MODELS))
       /\ req_ok(k, "textValue", "str")
    THEN Ok([vectorBucketName |-> k.vectorBucketName,
             indexName |-> k.indexName,
             modelId |-> GetOr(k, "modelId", TEXT_EMBEDDING_MODELS[1]),
             textValue |-> k.textValue])
    ELSE ValidationError

\* str.lower() on the lexemes drawn here
lower(s) ==
    [i \in DOMAIN s |->
        CASE s[i] = "PDF" -> "pdf"
          [] s[i] = "JPG" -> "jpg"
          [] s[i] = "Txt" -> "txt"
          [] OTHER -> s[i]]

\* the largest index of c in p, 0 when there is none (str.rfind, 1-based)
rfind(p, c) ==
    IF \E i \in DOMAIN p : p[i] = c
    THEN CHOOSE i \in DOMAIN p : p[i] = c /\ \A j \in DOMAIN p : p[j] = c => j <= i
    ELSE 0

\* os.path.splitext(p)[1] (posixpath): the extension starts at the last dot of the last
\* path component, unless only dots precede it in that component
splitext_ext(p) ==
    LET sepIndex == rfind(p, "/")
        dotIndex == rfind(p, ".")
    IN  IF dotIndex > sepIndex /\ \E i \in (sepIndex + 1)..(dotIndex - 1) : p[i] # "."
        THEN SubSeq(p, dotIndex, Len(p))
        ELSE <<>>

\* a variant that does not let a request without modelId through
validate_model_for_file_type_default_checked(values) ==
    LET file_path == Get(values, "file")
        model_id == GetOr(values, "modelId", TEXT_EMBEDDING_MODELS[1])
        ext == lower(splitext_ext(file_path.s))
    IN  IF ~Truthy(file_path) \/ ~IsStr(file_path) THEN FALSE
        ELSE IF ext \in TEXT_FILE_EXTENSIONS THEN model_id \notin Range(TEXT_EMBEDDING_MODELS)
        ELSE IF ext \in IMAGE_FILE_EXTENSIONS THEN model_id \notin Range(IMAGE_EMBEDDING_MODELS)
        ELSE TRUE

\* a variant that checks every extension against the text models
validate_model_for_file_type_text_only(values) ==
    LET file_path == Get(values, "file")
        model_id == Get(values, "modelId")
        ext == lower(splitext_ext(file_path.s))
    IN  IF ~Truthy(file_path) \/ ~Truthy(model_id) \/ ~IsStr(file_path) THEN FALSE
        ELSE IF ext \in TEXT_FILE_EXTENSIONS \cup IMAGE_FILE_EXTENSIONS
        THEN model_id \notin Range(TEXT_EMBEDDING_MODELS)
        ELSE TRUE

\* EmbedAndStoreFileRequest.validate_model_for_file_type, a @model_validator(mode='before'):
\* TRUE when it raises ValueError
validate_model_for_file_type(values) ==
    LET file_path == Get(values, "file")
        model_id == Get(values, "modelId")
        ext == lower(splitext_ext(file_path.s))
    IN  IF ~Truthy(file_path) \/ ~Truthy(model_id) \/ ~IsStr(file_path) THEN FALSE
        ELSE IF ext \in TEXT_FILE_EXTENSIONS THEN model_id \notin Range(TEXT_EMBEDDING_MODELS)
        ELSE IF ext \in IMAGE_FILE_EXTENSIONS THEN model_id \notin Range(IMAGE_EMBEDDING_MODELS)
        ELSE TRUE

\* class EmbedAndStoreFileRequest
EmbedAndStoreFileRequest(k) ==
    IF validate_model_for_file_type(k) THEN ValidationError
    ELSE IF /\ vectorBucketName_ok(k)
            /\ indexName_ok(k)
            /\ literal_ok(k, "modelId", Range(TEXT_EMBEDDING_MODELS \o IMAGE_EMBEDDING_MODELS))
            /\ req_ok(k, "file", "str")
            /\ literal_ok(k, "modality", Range(MODALITIES))
    THEN Ok([vectorBucketName |-> k.vectorBucketName,
             indexName |-> k.indexName,
             modelId |-> GetOr(k, "modelId", TEXT_EMBEDDING_MODELS[1]),
             file |-> k.file,
             modality |-> GetOr(k, "modality", MODALITIES[1])])
    ELSE ValidationError

\* class EmbedAndStoreS3ObjectsRequest (its validate_model_for_file_type is commented out)
EmbedAndStoreS3ObjectsRequest(k) ==
    IF /\ vectorBucketName_ok(k)
       /\ indexName_ok(k)
       /\ literal_ok(k, "modelId", Range(TEXT_EMBEDDING_MODELS \o IMAGE_EMBEDDING_MODELS))
       /\ req_ok(k, "s3_path", "str")
       /\ "modality" \in DOMAIN k
       /\ literal_ok(k, "modality", Range(MODALITIES))
    THEN Ok([vectorBucketName |-> k.vectorBucketName,
             indexName |-> k.indexName,
             modelId |-> GetOr(k, "modelId", TEXT_EMBEDDING_MODELS[1]),
             s3_path |-> k.s3_path,
             modality |-> k.modality])
    ELSE ValidationError

\* class EmbedAndQueryTextRequest
EmbedAndQueryTextRequest(k) ==
    IF /\ vectorBucketName_ok(k)
       /\ indexName_ok(k)
       /\ "modelId" \in DOMAIN k => IsStr(k.modelId)
       /\ req_ok(k, "queryInput", "str")
       /\ opt_ok(k, "topK", "str")
       /\ opt_ok(k, "filter", "dict")
       /\ opt_ok(k, "returnMetadata", "bool")
       /\ opt_ok(k, "returnDistance", "bool")
       /\ "output" \in DOMAIN k => k.output \in Range(OUTPUT_FORMATS) \cup {PyNone}
    THEN Ok([vectorBucketName |-> k.vectorBucketName,
             indexName |-> k.indexName,
             modelId |-> GetOr(k, "modelId", TEXT_EMBEDDING_MODELS[1]),
             queryInput |-> k.queryInput,
             topK |-> GetOr(k, "topK", L("5")),
             filter |-> Get(k, "filter"),
             returnMetadata |-> GetOr(k, "returnMetadata", PyBool(FALSE)),
             returnDistance |-> GetOr(k, "returnDistance", PyBool(FALSE)),
             output |-> GetOr(k, "output", OUTPUT_FORMATS[1])])
    ELSE ValidationError

\* a variant that keeps the fields whose value is None: BaseModel.dict()
dict_keeps_none(val) == val

\* BaseModel.dict(exclude_none=True): the fields whose value is not None, in the request
\* and in its nested Pagination model
dict_exclude_none(val) ==
    [x \in {y \in DOMAIN val : val[y] # PyNone} |->
        IF x = "nextToken"
        THEN PyDict([z \in {y \in DOMAIN val[x].d : val[x].d[y] # PyNone} |-> val[x].d[z]])
        ELSE val[x]]

-----------------------------------------------------------------------------
(* helpers.py *)

\* what boto3.Session(...).client('s3vectors') gives: a handle bound to the region and profile
Client(region, profile) == [t |-> "client", region |-> region, profile |-> profile]

\* a variant that builds a client from the environment at every call
get_s3_vectors_client_uncached(cached, env) ==
    LET aws_region == GetOr(env, "AWS_REGION", L("us-east-1"))
        aws_profile == Get(env, "AWS_PROFILE")
    IN  IF Truthy(aws_profile)
        THEN Client(aws_region, aws_profile)
        ELSE Client(aws_region, PyNone)

\* get_s3_vectors_client(), when building the client does not raise: the cached handle after the call
get_s3_vectors_client(cached, env) ==
    IF cached = PyNone
    THEN LET aws_region == GetOr(env, "AWS_REGION", L("us-east-1"))
             aws_profile == Get(env, "AWS_PROFILE")
         IN  IF Truthy(aws_profile)
             THEN Client(aws_region, aws_profile)
             ELSE Client(aws_region, PyNone)
    ELSE cached

\* a variant that builds a fresh list on every call instead of extending the module-level one
get_s3vectors_cli_global_config_rebuilt(config, env) ==
    (IF GetOr(env, "DEBUG_FLAG", PyInt(0)) # PyInt(0) THEN <<L("--debug")>> ELSE <<>>)
    \o (IF Truthy(Get(env, "AWS_PROFILE"))
        THEN <<L("--profile"), Get(env, "AWS_PROFILE")>> ELSE <<>>)
    \o <<L("--region"), GetOr(env, "AWS_REGION", L("us-east-1"))>>

\* get_s3vectors_cli_global_config(): the module-level list after the call (the call returns it)
get_s3vectors_cli_global_config(config, env) ==
    LET aws_region == GetOr(env, "AWS_REGION", L("us-east-1"))
        aws_profile == Get(env, "AWS_PROFILE")
        debug_flag == GetOr(env, "DEBUG_FLAG", PyInt(0))
    IN  config
        \o (IF debug_flag # PyInt(0) THEN <<L("--debug")>> ELSE <<>>)
        \o (IF Truthy(aws_profile) THEN <<L("--profile"), aws_profile>> ELSE <<>>)
        \o (IF Truthy(aws_region) THEN <<L("--region"), aws_region>> ELSE <<>>)

\* a variant whose --return-distance test reads returnMetadata
query_optional_args_distance_from_metadata(r) ==
    (IF Truthy(r.topK) THEN <<L("--k"), r.topK>> ELSE <<>>)
    \o (IF Truthy(r.filter) THEN <<L("--filter"), r.filter>> ELSE <<>>)
    \o (IF Truthy(r.returnMetadata) THEN <<L("--return-metadata")>> ELSE <<>>)
    \o (IF Truthy(r.returnMetadata) THEN <<L("--return-distance")>> ELSE <<>>)
    \o (IF Truthy(r.output) THEN <<L("--output"), r.output>> ELSE <<>>)

\* the arguments one request adds: the five `if` statements of get_s3vectors_query_optional_config
query_optional_args(r) ==
    (IF Truthy(r.topK) THEN <<L("--k"), r.topK>> ELSE <<>>)
    \o (IF Truthy(r.filter) THEN <<L("--filter"), r.filter>> ELSE <<>>)
    \o (IF Truthy(r.returnMetadata) THEN <<L("--return-metadata")>> ELSE <<>>)
    \o (IF Truthy(r.returnDistance) THEN <<L("--return-distance")>> ELSE <<>>)
    \o (IF Truthy(r.output) THEN <<L("--output"), r.output>> ELSE <<>>)

\* get_s3vectors_query_optional_config(request): the module-level list after the call
\* (each `+=` extends the list in place; the call returns that list)
get_s3vectors_query_optional_config(config, r) == config \o query_optional_args(r)

-----------------------------------------------------------------------------
(* the external collaborators: the s3vectors API and the s3vectors-embed process *)

Response == [t |-> "response", HTTPStatusCode |-> 200]
Exc(type) == [t |-> "exc", type |-> type]

\* standard outputs of s3vectors-embed, each one lexeme: a dict display, a report
\* that is no Python expression, a bare identifier, nothing
OUT_DICT == <<"{'bucket': ..., 'index': ...}">>
OUT_REPORT == <<"Processed 3 files: ...">>
OUT_NAME == <<"done">>
OUT_EMPTY == <<>>

CompletedProcess(rc, out, err) == [returncode |-> rc, stdout |-> out, stderr |-> err]

\* what a run of s3vectors-embed can give back
ProcessResults ==
    {CompletedProcess(0, OUT_DICT, <<>>),
     CompletedProcess(0, OUT_REPORT, <<>>),
     CompletedProcess(0, OUT_NAME, <<>>),
     CompletedProcess(1, OUT_EMPTY, <<"Error: ...">>)}

NoProcess == CompletedProcess(-1, <<>>, <<>>)

\* eval(response.stdout) on those outputs
eval(out) ==
    CASE out = OUT_DICT -> PyDict([bucket |-> L("..."), index |-> L("...")])
      [] out = OUT_NAME -> Exc("NameError")
      [] OTHER -> Exc("SyntaxError")

\* subprocess.run(command, capture_output=True) raises TypeError before starting anything
\* when an argument is not a string
launches(command) == \A i \in DOMAIN command : IsStr(command[i])

\* response.stdout.decode()
decode(out) == S(out)

-----------------------------------------------------------------------------
(* server.py: what one tool invocation did *)

NoRequest == [none |-> TRUE]

\* no tool has been invoked yet
NoInvocation ==
    [tool |-> "none", kwargs |-> EmptyFn, request |-> NoRequest, outcome |-> "none",
     api |-> <<>>, argv |-> <<>>, started |-> FALSE, process |-> NoProcess, ret |-> PyNone]

\* the request model's constructor raised: the tool's body did not run
Rejected(tool, k) ==
    [NoInvocation EXCEPT !.tool = tool, !.kwargs = k, !.outcome = "ValidationError",
                         !.ret = Exc("ValidationError")]

\* return s3v.<tool>(**request.dict(exclude_none=True))
ApiCall(tool, k, r, res) ==
    [NoInvocation EXCEPT !.tool = tool, !.kwargs = k, !.request = r,
                         !.outcome = IF res.t = "exc" THEN "raised" ELSE "returned",
                         !.api = <<[op |-> tool, client |-> s3_vectors_client,
                                    kwargs |-> dict_exclude_none(r)]>>,
                         !.ret = res]

\* response = subprocess.run(command, capture_output=True), then the tool's return statement
ProcessCall(tool, k, r, command, proc, ret) ==
    IF launches(command)
    THEN [NoInvocation EXCEPT !.tool = tool, !.kwargs = k, !.request = r,
                              !.outcome = IF ret.t = "exc" THEN "raised" ELSE "returned",
                              !.argv = command, !.started = TRUE, !.process = proc,
                              !.ret = ret]
    ELSE [NoInvocation EXCEPT !.tool = tool, !.kwargs = k, !.request = r,
                              !.outcome = "raised", !.argv = command,
                              !.ret = Exc("TypeError")]

\* a variant in which every command calls get_s3vectors_cli_global_config() again
S3_VECTORS_GLOBAL_CONFIG_recomputed ==
    get_s3vectors_cli_global_config(s3_vectors_global_config, environ)

\* server.S3_VECTORS_GLOBAL_CONFIG: the list get_s3vectors_cli_global_config returned at import
S3_VECTORS_GLOBAL_CONFIG == s3_vectors_global_config

\* args of embed_and_store_text
embed_and_store_text_args(r) ==
    <<L("--vector-bucket-name"), r.vectorBucketName, L("--index-name"), r.indexName,
      L("--model-id"), r.modelId, L("--text-value"), r.textValue>>

\* args of embed_and_store_file: f'--{modality}', f'{file}'
embed_and_store_file_args(r) ==
    <<L("--vector-bucket-name"), r.vectorBucketName, L("--index-name"), r.indexName,
      L("--model-id"), r.modelId, S(<<"--">> \o r.modality.s), r.file>>

\* args of embed_and_store_s3_objects
embed_and_store_s3_objects_args(r) ==
    <<L("--vector-bucket-name"), r.vectorBucketName, L("--index-name"), r.indexName,
      L("--model-id"), r.modelId, S(<<"--">> \o r.modality.s), r.s3_path>>

\* args of embed_and_query
embed_and_query_args(r) ==
    <<L("--vector-bucket-name"), r.vectorBucketName, L("--index-name"), r.indexName,
      L("--model-id"), r.modelId, L("--query-input"), r.queryInput>>

\* a variant that puts the global flags after the sub-command
command_line_flags_after_subcommand(subcommand, args) ==
    <<L("s3vectors-embed")>> \o <<L(subcommand)>> \o S3_VECTORS_GLOBAL_CONFIG \o args

\* command = ['s3vectors-embed'] + S3_VECTORS_GLOBAL_CONFIG + [subcommand] + args
command_line(subcommand, args) ==
    <<L("s3vectors-embed")>> \o S3_VECTORS_GLOBAL_CONFIG \o <<L(subcommand)>> \o args

\* return eval(response.stdout)
embed_and_store_text_return(proc) == eval(proc.stdout)

\* try: return eval(response.stdout) / except SyntaxError: return str(response.stdout.decode())
embed_and_store_file_return(proc) ==
    IF eval(proc.stdout) = Exc("SyntaxError") THEN decode(proc.stdout) ELSE eval(proc.stdout)

\* return response.stdout.decode()
embed_and_store_s3_objects_return(proc) == decode(proc.stdout)

\* return response.stdout.decode()
embed_and_query_return(proc) == decode(proc.stdout)

-----------------------------------------------------------------------------
(* the inputs drawn by the server specification *)

GoodBucket == S(<<"z", "-", "0">>)
GoodIndex == S(<<"z", ".", "0">>)
BadName == S(<<"Z">>)

GoodKmsArn ==
    S(<<"arn:aws:kms:">> \o Rep("z", 2) \o <<":">> \o Rep("0", 12) \o <<":key/">> \o Rep("f", 36))

GoodBucketArn ==
    S(<<"arn:aws:s3vector:">> \o Rep("z", 2) \o <<":">> \o Rep("0", 12) \o <<":bucket/">> \o Rep("z", 3))

Token == PyDict([nextToken |-> L("opaque-token")])

Environs ==
    {EmptyFn,
     [AWS_REGION |-> L("eu-west-1"), AWS_PROFILE |-> L("dev"), DEBUG_FLAG |-> L("1")]}

BucketOnly == [vectorBucketName |-> GoodBucket]
BucketIndex == [vectorBucketName |-> GoodBucket, indexName |-> GoodIndex]

CreateVectorBucketKws ==
    {BucketOnly,
     [vectorBucketName |-> BadName],
     BucketOnly @@ [encryptionConfiguration |-> PyDict(EmptyFn)],
     BucketOnly @@ [encryptionConfiguration |-> PyDict([sseType |-> AWS_KMS])],
     BucketOnly @@ [encryptionConfiguration |-> PyDict([sseType |-> AWS_KMS, kmsKeyArn |-> GoodKmsArn])]}

GetVectorBucketKws ==
    {BucketOnly, [vectorBucketName |-> BadName], BucketOnly @@ [vectorBucketArn |-> GoodBucketArn]}

ListVectorBucketKws == {EmptyFn, [nextToken |-> Token], [maxResults |-> L("ten")]}

CreateIndexKws ==
    {BucketIndex @@ [dimension |-> PyInt(1024)],
     BucketIndex @@ [dimension |-> PyInt(0)],
     BucketIndex @@ [dimension |-> PyInt(1024), vectorBucketArn |-> GoodBucketArn, dataType |-> PyNone],
     BucketIndex @@ [dimension |-> PyInt(4096), distanceMetric |-> L("euclidean"),
                     metadataConfiguration |->
                         PyDict([nonFilterableMetadataKeys |-> <<L("source")>>])]}

GetIndexKws == {BucketIndex, [vectorBucketName |-> GoodBucket, indexName |-> BadName]}

ListIndexesKws ==
    {BucketOnly, [vectorBucketName |-> BadName],
     BucketOnly @@ [nextToken |-> Token, maxResults |-> PyInt(10)]}

ListVectorsKws ==
    {BucketIndex,
     BucketIndex @@ [maxResults |-> PyNone, nextToken |-> PyNone],
     BucketIndex @@ [maxResults |-> PyInt(10), nextToken |-> Token, returnData |-> PyBool(TRUE)]}

EmbedAndStoreTextKws ==
    {BucketIndex @@ [textValue |-> L("Hello, world!")],
     BucketIndex @@ [textValue |-> L("Hello, world!"), modelId |-> IMAGE_EMBEDDING_MODELS[1]]}

EmbedAndStoreFileKws ==
    {BucketIndex @@ [file |-> S(<<".", "/", "docs", "/", "*", ".", "txt">>)],
     BucketIndex @@ [file |-> S(<<"photo", ".", "jpg">>), modelId |-> IMAGE_EMBEDDING_MODELS[1]],
     BucketIndex @@ [file |-> S(<<"doc", ".", "pdf">>), modelId |-> IMAGE_EMBEDDING_MODELS[1]],
     BucketIndex @@ [file |-> S(<<"s3:", "/", "/", "bucket", "/", "text", "/", "*">>)],
     BucketIndex @@ [file |-> S(<<"photo", ".", "unknownext">>)],
     BucketIndex @@ [file |-> S(<<"photo", ".", "jpg">>)]}

EmbedAndStoreS3ObjectsKws ==
    {BucketIndex @@ [s3_path |-> S(<<"s3:", "/", "/", "bucket", "/", "*">>), modality |-> MODALITIES[1]],
     BucketIndex @@ [s3_path |-> S(<<"s3:", "/", "/", "bucket", "/", "*">>)]}

RequiredOnly == BucketIndex @@ [queryInput |-> L("query text")]

EmbedAndQueryKws ==
    {RequiredOnly,
     RequiredOnly @@ [returnDistance |-> PyBool(TRUE)],
     RequiredOnly @@ [topK |-> L("3")],
     RequiredOnly @@ [filter |-> PyDict([category |-> L("story")])],
     [vectorBucketName |-> BadName, indexName |-> GoodIndex, queryInput |-> L("query text"),
      topK |-> L("3")]}

ApiResults == {Response, Exc("ClientError")}

-----------------------------------------------------------------------------
(* server.py: import of the module, then the tools *)

NoInput == [cls |-> "none", args |-> EmptyFn]

\* the simplified server module (src/s3-vectors-mcp) before it is imported: no FastMCP
\* name is bound, no mcp object exists, no function is decorated
NotImported == [FastMCP |-> "unbound", mcp |-> "unbound", tools |-> <<>>]

Init ==
    /\ pc = "start"
    /\ environ \in Environs
    /\ s3_vectors_client = PyNone
    /\ s3_vectors_global_config = <<>>
    /\ s3_vectors_query_optional_config = <<>>
    /\ nqueries = 0
    /\ last = NoInvocation
    /\ kw = NoInput
    /\ built = NotBuilt
    /\ sessions = 0
    /\ tasks = <<>>
    /\ nglobal = 0
    /\ simple_server = NotImported

\* s3v = get_s3_vectors_client(); S3_VECTORS_GLOBAL_CONFIG = get_s3vectors_cli_global_config()
\* building the boto3 session or client may raise: the exception is logged and re-raised,
\* the import fails
ImportServer ==
    /\ pc = "start"
    /\ \/ /\ pc' = "serving"
          /\ s3_vectors_client' = get_s3_vectors_client(s3_vectors_client, environ)
          /\ s3_vectors_global_config' =
                get_s3vectors_cli_global_config(s3_vectors_global_config, environ)
          /\ sessions' = IF s3_vectors_client = PyNone THEN sessions + 1 ELSE sessions
          /\ nglobal' = nglobal + 1
       \/ /\ pc' = "crashed"
          /\ UNCHANGED <<s3_vectors_client, s3_vectors_global_config, sessions, nglobal>>
    /\ UNCHANGED <<environ, s3_vectors_query_optional_config, nqueries, last, kw, simple_server,
                   built, tasks>>

\* @mcp.tool() async def create_vector_bucket
create_vector_bucket ==
    /\ pc = "serving"
    /\ \E k \in CreateVectorBucketKws, res \in ApiResults :
          LET req == CreateVectorBucketRequest(k)
          IN  last' = IF req.ok THEN ApiCall("create_vector_bucket", k, req.val, res)
                      ELSE Rejected("create_vector_bucket", k)
    /\ UNCHANGED <<pc, environ, procvars, nqueries, kw, nglobal, simple_server, built, sessions, tasks>>

\* @mcp.tool() async def list_vector_buckets
list_vector_buckets ==
    /\ pc = "serving"
    /\ \E k \in ListVectorBucketKws, res \in ApiResults :
          LET req == ListVectorBucketRequest(k)
          IN  last' = IF req.ok THEN ApiCall("list_vector_buckets", k, req.val, res)
                      ELSE Rejected("list_vector_buckets", k)
    /\ UNCHANGED <<pc, environ, procvars, nqueries, kw, nglobal, simple_server, built, sessions, tasks>>

\* @mcp.tool() async def get_vector_bucket
get_vector_bucket ==
    /\ pc = "serving"
    /\ \E k \in GetVectorBucketKws, res \in ApiResults :
          LET req == GetVectorBucketRequest(k)
          IN  last' = IF req.ok THEN ApiCall("get_vector_bucket", k, req.val, res)
                      ELSE Rejected("get_vector_bucket", k)
    /\ UNCHANGED <<pc, environ, procvars, nqueries, kw, nglobal, simple_server, built, sessions, tasks>>

\* @mcp.tool() async def create_index
create_index ==
    /\ pc = "serving"
    /\ \E k \in CreateIndexKws, res \in ApiResults :
          LET req == CreateIndexRequest(k)
          IN  last' = IF req.ok THEN ApiCall("create_index", k, req.val, res)
                      ELSE Rejected("create_index", k)
    /\ UNCHANGED <<pc, environ, procvars, nqueries, kw, nglobal, simple_server, built, sessions, tasks>>

\* @mcp.tool() async def get_index
get_index ==
    /\ pc = "serving"
    /\ \E k \in GetIndexKws, res \in ApiResults :
          LET req == GetIndexRequest(k)
          IN  last' = IF req.ok THEN ApiCall("get_index", k, req.val, res)
                      ELSE Rejected("get_index", k)
    /\ UNCHANGED <<pc, environ, procvars, nqueries, kw, nglobal, simple_server, built, sessions, tasks>>

\* @mcp.tool() async def list_indexes
list_indexes ==
    /\ pc = "serving"
    /\ \E k \in ListIndexesKws, res \in ApiResults :
          LET req == ListIndexesRequest(k)
          IN  last' = IF req.ok THEN ApiCall("list_indexes", k, req.val, res)
                      ELSE Rejected("list_indexes", k)
    /\ UNCHANGED <<pc, environ, procvars, nqueries, kw, nglobal, simple_server, built, sessions, tasks>>

\* @mcp.tool() async def list_vectors
list_vectors ==
    /\ pc = "serving"
    /\ \E k \in ListVectorsKws, res \in ApiResults :
          LET req == ListVectorsRequest(k)
          IN  last' = IF req.ok THEN ApiCall("list_vectors", k, req.val, res)
                      ELSE Rejected("list_vectors", k)
    /\ UNCHANGED <<pc, environ, procvars, nqueries, kw, nglobal, simple_server, built, sessions, tasks>>

\* @mcp.tool() async def embed_and_store_text
embed_and_store_text ==
    /\ pc = "serving"
    /\ \E k \in EmbedAndStoreTextKws, proc \in ProcessResults :
          LET req == EmbedAndStoreTextRequest(k)
          IN  last' = IF req.ok
                      THEN ProcessCall("embed_and_store_text", k, req.val,
                                       command_line("put", embed_and_store_text_args(req.val)),
                                       proc, embed_and_store_text_return(proc))
                      ELSE Rejected("embed_and_store_text", k)
    /\ UNCHANGED <<pc, environ, procvars, nqueries, kw, nglobal, simple_server, built, sessions, tasks>>

\* @mcp.tool() async def embed_and_store_file
embed_and_store_file ==
    /\ pc = "serving"
    /\ \E k \in EmbedAndStoreFileKws, proc \in ProcessResults :
          LET req == EmbedAndStoreFileRequest(k)
          IN  last' = IF req.ok
                      THEN ProcessCall("embed_and_store_file", k, req.val,
                                       command_line("put", embed_and_store_file_args(req.val)),
                                       proc, embed_and_store_file_return(proc))
                      ELSE Rejected("embed_and_store_file", k)
    /\ UNCHANGED <<pc, environ, procvars, nqueries, kw, nglobal, simple_server, built, sessions, tasks>>

\* @mcp.tool() async def embed_and_store_s3_objects
embed_and_store_s3_objects ==
    /\ pc = "serving"
    /\ \E k \in EmbedAndStoreS3ObjectsKws, proc \in ProcessResults :
          LET req == EmbedAndStoreS3ObjectsRequest(k)
          IN  last' = IF req.ok
                      THEN ProcessCall("embed_and_store_s3_objects", k, req.val,
                                       command_line("put", embed_and_store_s3_objects_args(req.val)),
                                       proc, embed_and_store_s3_objects_return(proc))
                      ELSE Rejected("embed_and_store_s3_objects", k)
    /\ UNCHANGED <<pc, environ, procvars, nqueries, kw, nglobal, simple_server, built, sessions, tasks>>

\* a variant whose body reads the raw arguments and extends the list before the request is validated
embed_and_query_config_unvalidated(config, k, req) ==
    get_s3vectors_query_optional_config(config,
        k @@ [topK |-> L("5"), filter |-> PyNone, returnMetadata |-> PyBool(FALSE),
              returnDistance |-> PyBool(FALSE), output |-> OUTPUT_FORMATS[1]])

\* the module-level list after an invocation of embed_and_query: the body runs, and calls
\* get_s3vectors_query_optional_config, only with a validated EmbedAndQueryTextRequest
embed_and_query_config(config, k, req) ==
    IF req.ok THEN get_s3vectors_query_optional_config(config, req.val) ELSE config

\* @mcp.tool() async def embed_and_query
embed_and_query ==
    /\ pc = "serving"
    /\ nqueries < MaxQueries
    /\ \E k \in EmbedAndQueryKws, proc \in ProcessResults :
          LET req == EmbedAndQueryTextRequest(k)
              config == embed_and_query_config(s3_vectors_query_optional_config, k, req)
          IN  /\ s3_vectors_query_optional_config' = config
              /\ nqueries' = IF req.ok THEN nqueries + 1 ELSE nqueries
              /\ last' = IF req.ok
                         THEN ProcessCall("embed_and_query", k, req.val,
                                          command_line("query", embed_and_query_args(req.val))
                                              \o config,
                                          proc, embed_and_query_return(proc))
                         ELSE Rejected("embed_and_query", k)
    /\ UNCHANGED <<pc, environ, s3_vectors_client, s3_vectors_global_config, kw, nglobal, simple_server, built,
                   sessions, tasks>>

Next ==
    \/ ImportServer
    \/ create_vector_bucket
    \/ list_vector_buckets
    \/ get_vector_bucket
    \/ create_index
    \/ get_index
    \/ list_indexes
    \/ list_vectors
    \/ embed_and_store_text
    \/ embed_and_store_file
    \/ embed_and_store_s3_objects
    \/ embed_and_query

Spec == Init /\ [][Next]_vars

-----------------------------------------------------------------------------
(* the request models on their own: construction of one request from drawn arguments *)

NameChars == {"z", "-", ".", "Z"}

\* the lengths drawn: around the lower limit, and around the upper limit of 63
NameLens == (0..4) \cup ((MaxNameLen - 4)..MaxNameLen)

Names ==
    {<<>>} \cup {<<f>> : f \in NameChars}
    \cup {<<f>> \o Rep(m, n - 2) \o <<l>> :
            f \in NameChars, m \in NameChars, l \in NameChars, n \in NameLens \ {0, 1}}

BucketClasses ==
    {"CreateVectorBucketRequest", "GetVectorBucketRequest", "CreateIndexRequest",
     "GetIndexRequest", "ListIndexesRequest", "ListVectorsRequest", "EmbedAndStoreTextRequest",
     "EmbedAndStoreFileRequest", "EmbedAndStoreS3ObjectsRequest", "EmbedAndQueryTextRequest"}

IndexClasses ==
    {"CreateIndexRequest", "GetIndexRequest", "ListVectorsRequest", "EmbedAndStoreTextRequest",
     "EmbedAndStoreFileRequest", "EmbedAndStoreS3ObjectsRequest", "EmbedAndQueryTextRequest"}

\* arguments every field of which is valid
BaseArgs(cls) ==
    CASE cls = "CreateVectorBucketRequest" -> BucketOnly
      [] cls = "GetVectorBucketRequest" -> BucketOnly
      [] cls = "ListVectorBucketRequest" -> EmptyFn
      [] cls = "CreateIndexRequest" -> BucketIndex @@ [dimension |-> PyInt(1024)]
      [] cls = "GetIndexRequest" -> BucketIndex
      [] cls = "ListIndexesRequest" -> BucketOnly
      [] cls = "ListVectorsRequest" -> BucketIndex @@ [maxResults |-> PyNone, nextToken |-> PyNone]
      [] cls = "EmbedAndStoreTextRequest" -> BucketIndex @@ [textValue |-> L("Hello, world!")]
      [] cls = "EmbedAndStoreFileRequest" -> BucketIndex @@ [file |-> S(<<"sample", ".", "txt">>)]
      [] cls = "EmbedAndStoreS3ObjectsRequest" ->
            BucketIndex @@ [s3_path |-> S(<<"s3:", "/", "/", "bucket", "/", "*">>),
                            modality |-> MODALITIES[1]]
      [] cls = "EmbedAndQueryTextRequest" -> RequiredOnly

NameInputs ==
    {[cls |-> c, args |-> [BaseArgs(c) EXCEPT !.vectorBucketName = S(n)]] :
        c \in BucketClasses, n \in Names}
    \cup {[cls |-> c, args |-> [BaseArgs(c) EXCEPT !.indexName = S(n)]] :
            c \in IndexClasses, n \in Names}

KmsArns ==
    {S(<<p>> \o Rep(rc, rn) \o <<":">> \o Rep("0", an) \o <<":key/">> \o Rep(kc, kn)) :
        p \in {"arn:aws:kms:", "arn:aws:s3:"}, rc \in {"z", "Z"}, rn \in {0, 2},
        an \in {11, 12, 13}, kn \in {35, 36, 37}, kc \in {"f", "F", "z"}}

EncryptionConfigurations ==
    {PyDict(EmptyFn), PyDict([sseType |-> AES256]), PyDict([sseType |-> AWS_KMS]),
     PyDict([sseType |-> L("DES")]), PyDict([kmsKeyArn |-> GoodKmsArn]),
     PyDict([sseType |-> AWS_KMS, kmsKeyArn |-> S(<<>>)])}
    \cup {PyDict([sseType |-> AWS_KMS, kmsKeyArn |-> a]) : a \in KmsArns}

\* arguments beside the two fields of the model
ExtraArguments ==
    {EmptyFn, [sseType |-> AWS_KMS], [sseType |-> L("DES")],
     [sseType |-> AWS_KMS, kmsKeyArn |-> GoodKmsArn],
     [sseType |-> AWS_KMS, kmsKeyArn |-> S(<<"arn:aws:kms:">>)]}

EncryptionInputs ==
    {[cls |-> "CreateVectorBucketRequest", args |-> a] :
        a \in {EmptyFn, BucketOnly}
              \cup {BucketOnly @@ x : x \in ExtraArguments}
              \cup {BucketOnly @@ [encryptionConfiguration |-> c] @@ x :
                      c \in EncryptionConfigurations, x \in ExtraArguments}}

Dirs == {<<>>, <<".", "/">>, <<"docs", ".", "v2", "/">>}
Stems == {<<>>, <<"photo">>, <<"doc">>, <<"*">>}
Exts ==
    {<<>>, <<".">>, <<".", "pdf">>, <<".", "PDF">>, <<".", "txt">>, <<".", "md">>,
     <<".", "jpg">>, <<".", "JPG">>, <<".", "png">>, <<".", "unknownext">>,
     <<".", "tar", ".", "gz">>}
FilePaths == {d \o s \o e : d \in Dirs, s \in Stems, e \in Exts}

ModelIdArguments ==
    {EmptyFn} \cup {[modelId |-> m] : m \in Range(TEXT_EMBEDDING_MODELS \o IMAGE_EMBEDDING_MODELS)
                                           \cup {L("gpt-4"), S(<<>>), PyNone}}

FileInputs ==
    {[cls |-> "EmbedAndStoreFileRequest", args |-> BucketIndex @@ [file |-> S(f)] @@ m @@ x] :
        f \in FilePaths, m \in ModelIdArguments, x \in {EmptyFn, [modality |-> MODALITIES[2]]}}

\* a create_index request with or without a distance metric; a list_vectors request with
\* or without the fields its table calls optional
FieldInputs ==
    {[cls |-> "CreateIndexRequest", args |-> BaseArgs("CreateIndexRequest") @@ m] :
        m \in {EmptyFn} \cup {[distanceMetric |-> d] :
                 d \in {L("euclidean"), L("cosine"), L("manhattan"), L("Cosine"), S(<<>>)}}}
    \cup {[cls |-> "ListVectorsRequest", args |-> BucketIndex @@ m @@ n @@ o] :
            m \in {EmptyFn, [maxResults |-> PyNone], [maxResults |-> PyInt(10)]},
            n \in {EmptyFn, [nextToken |-> PyNone], [nextToken |-> Token],
                   [nextToken |-> L("opaque-token")]},
            o \in {EmptyFn, [returnData |-> PyBool(TRUE)],
                   [segmentCount |-> PyInt(2), segmentIndex |-> PyInt(0),
                    returnMetadata |-> PyBool(FALSE)]}}

ModelInputs ==
    NameInputs \cup EncryptionInputs \cup FileInputs \cup FieldInputs
    \cup {[cls |-> "ListVectorBucketRequest", args |-> a] : a \in ListVectorBucketKws}

InitModels ==
    /\ pc = "start"
    /\ environ = EmptyFn
    /\ s3_vectors_client = PyNone
    /\ s3_vectors_global_config = <<>>
    /\ s3_vectors_query_optional_config = <<>>
    /\ nqueries = 0
    /\ last = NoInvocation
    /\ kw \in ModelInputs
    /\ built = NotBuilt
    /\ sessions = 0
    /\ tasks = <<>>
    /\ nglobal = 0
    /\ simple_server = NotImported

\* CreateVectorBucketRequest(**kw.args)
new_CreateVectorBucketRequest ==
    /\ kw.cls = "CreateVectorBucketRequest"
    /\ built = NotBuilt
    /\ built' = CreateVectorBucketRequest(kw.args)
    /\ UNCHANGED <<servervars, kw>>

\* GetVectorBucketRequest(**kw.args)
new_GetVectorBucketRequest ==
    /\ kw.cls = "GetVectorBucketRequest"
    /\ built = NotBuilt
    /\ built' = GetVectorBucketRequest(kw.args)
    /\ UNCHANGED <<servervars, kw>>

\* ListVectorBucketRequest(**kw.args)
new_ListVectorBucketRequest ==
    /\ kw.cls = "ListVectorBucketRequest"
    /\ built = NotBuilt
    /\ built' = ListVectorBucketRequest(kw.args)
    /\ UNCHANGED <<servervars, kw>>

\* CreateIndexRequest(**kw.args)
new_CreateIndexRequest ==
    /\ kw.cls = "CreateIndexRequest"
    /\ built = NotBuilt
    /\ built' = CreateIndexRequest(kw.args)
    /\ UNCHANGED <<servervars, kw>>

\* GetIndexRequest(**kw.args)
new_GetIndexRequest ==
    /\ kw.cls = "GetIndexRequest"
    /\ built = NotBuilt
    /\ built' = GetIndexRequest(kw.args)
    /\ UNCHANGED <<servervars, kw>>

\* ListIndexesRequest(**kw.args)
new_ListIndexesRequest ==
    /\ kw.cls = "ListIndexesRequest"
    /\ built = NotBuilt
    /\ built' = ListIndexesRequest(kw.args)
    /\ UNCHANGED <<servervars, kw>>

\* ListVectorsRequest(**kw.args)
new_ListVectorsRequest ==
    /\ kw.cls = "ListVectorsRequest"
    /\ built = NotBuilt
    /\ built' = ListVectorsRequest(kw.args)
    /\ UNCHANGED <<servervars, kw>>

\* EmbedAndStoreTextRequest(**kw.args)
new_EmbedAndStoreTextRequest ==
    /\ kw.cls = "EmbedAndStoreTextRequest"
    /\ built = NotBuilt
    /\ built' = EmbedAndStoreTextRequest(kw.args)
    /\ UNCHANGED <<servervars, kw>>

\* EmbedAndStoreFileRequest(**kw.args)
new_EmbedAndStoreFileRequest ==
    /\ kw.cls = "EmbedAndStoreFileRequest"
    /\ built = NotBuilt
    /\ built' = EmbedAndStoreFileRequest(kw.args)
    /\ UNCHANGED <<servervars, kw>>

\* EmbedAndStoreS3ObjectsRequest(**kw.args)
new_EmbedAndStoreS3ObjectsRequest ==
    /\ kw.cls = "EmbedAndStoreS3ObjectsRequest"
    /\ built = NotBuilt
    /\ built' = EmbedAndStoreS3ObjectsRequest(kw.args)
    /\ UNCHANGED <<servervars, kw>>

\* EmbedAndQueryTextRequest(**kw.args)
new_EmbedAndQueryTextRequest ==
    /\ kw.cls = "EmbedAndQueryTextRequest"
    /\ built = NotBuilt
    /\ built' = EmbedAndQueryTextRequest(kw.args)
    /\ UNCHANGED <<servervars, kw>>

NextModels ==
    \/ new_CreateVectorBucketRequest
    \/ new_GetVectorBucketRequest
    \/ new_ListVectorBucketRequest
    \/ new_CreateIndexRequest
    \/ new_GetIndexRequest
    \/ new_ListIndexesRequest
    \/ new_ListVectorsRequest
    \/ new_EmbedAndStoreTextRequest
    \/ new_EmbedAndStoreFileRequest
    \/ new_EmbedAndStoreS3ObjectsRequest
    \/ new_EmbedAndQueryTextRequest

SpecModels == InitModels /\ [][NextModels]_vars

-----------------------------------------------------------------------------
(* Properties of the request models, checked under SpecModels *)

Constructed == built # NotBuilt

\* the drawn arguments are valid but for the vectorBucketName, which is a string
OnlyBucketNameVaries ==
    /\ kw.cls \in BucketClasses
    /\ "vectorBucketName" \in DOMAIN kw.args
    /\ kw.args = [BaseArgs(kw.cls) EXCEPT !.vectorBucketName = kw.args.vectorBucketName]

\* the drawn arguments are valid but for the indexName, which is a string
OnlyIndexNameVaries ==
    /\ kw.cls \in IndexClasses
    /\ "indexName" \in DOMAIN kw.args
    /\ kw.args = [BaseArgs(kw.cls) EXCEPT !.indexName = kw.args.indexName]

\* the whole of s is [a-z0-9][a-z0-9-]{1,61}[a-z0-9]
WholeBucketName(s) ==
    /\ 3 <= Len(s)
    /\ Len(s) <= 63
    /\ s[1] \in LowerAlnum
    /\ s[Len(s)] \in LowerAlnum
    /\ \A m \in 2..(Len(s) - 1) : s[m] \in LowerAlnum \cup {"-"}

\* C6: in every request model, a bucket name is accepted exactly when the whole name
\* matches [a-z0-9][a-z0-9-]{1,61}[a-z0-9]; every other string is rejected.
C6_BucketNameAcceptedIffWholeMatch ==
    (Constructed /\ OnlyBucketNameVaries) =>
        (built.ok <=> WholeBucketName(kw.args.vectorBucketName.s))

\* s is made of the characters allowed in an index name, the first and the last alphanumeric
AllowedIndexCharacters(s) ==
    /\ Len(s) >= 1
    /\ s[1] \in LowerAlnum
    /\ s[Len(s)] \in LowerAlnum
    /\ \A m \in 1..Len(s) : s[m] \in LowerAlnum \cup {".", "-"}

\* C7: for index names of allowed characters with alphanumeric ends, every request model
\* with an indexName rejects the lengths below 3 and above 63 and accepts the lengths 3
\* to 63; an accepted name satisfies both the pattern and the length check.
C7_IndexNameLengthEnforcedTwice ==
    (Constructed /\ OnlyIndexNameVaries) =>
        LET s == kw.args.indexName.s
        IN  /\ AllowedIndexCharacters(s) => (built.ok <=> (3 <= Len(s) /\ Len(s) <= 63))
            /\ built.ok => (VECTOR_INDEX_NAME_PATTERN(s) /\ 3 <= Len(s) /\ Len(s) <= 63)

\* an index name of 63 allowed characters has been accepted by ListVectorsRequest
C7_Witness ==
    /\ Constructed
    /\ OnlyIndexNameVaries
    /\ kw.cls = "ListVectorsRequest"
    /\ AllowedIndexCharacters(kw.args.indexName.s)
    /\ Len(kw.args.indexName.s) = 63
    /\ built.ok

\* a CreateVectorBucketRequest whose encryptionConfiguration is a mapping with sseType 'aws:kms'
KmsRequested ==
    /\ kw.cls = "CreateVectorBucketRequest"
    /\ "encryptionConfiguration" \in DOMAIN kw.args
    /\ IsDict(kw.args.encryptionConfiguration)
    /\ Get(kw.args.encryptionConfiguration.d, "sseType") = AWS_KMS

\* C4: with sseType 'aws:kms', construction fails when kmsKeyArn is missing or does not
\* match the KMS ARN pattern, and succeeds when kmsKeyArn is a well-formed KMS ARN.
C4_KmsKeyArnRequiredAndChecked ==
    (Constructed /\ KmsRequested) =>
        LET arn == Get(kw.args.encryptionConfiguration.d, "kmsKeyArn")
            wellFormed == IsStr(arn) /\ VALID_S3_KMS_ARN(arn.s)
        IN  /\ ~wellFormed => ~built.ok
            /\ (wellFormed /\ DOMAIN kw.args = {"vectorBucketName", "encryptionConfiguration"}
                /\ kw.args.vectorBucketName = GoodBucket) => built.ok

\* an EmbedAndStoreFileRequest with valid names and a file path
FileRequest ==
    /\ kw.cls = "EmbedAndStoreFileRequest"
    /\ "file" \in DOMAIN kw.args
    /\ kw.args.vectorBucketName = GoodBucket
    /\ kw.args.indexName = GoodIndex

FileExtension == lower(splitext_ext(kw.args.file.s))

\* C8: with an explicit modelId, a file with a text extension (case-insensitive) is accepted
\* only with a text embedding model and a file with an image extension only with an image
\* embedding model: 'doc.pdf' with the image model is rejected, 'photo.jpg' with it accepted.
C8_ModelMatchesFileType ==
    (Constructed /\ FileRequest /\ "modelId" \in DOMAIN kw.args) =>
        /\ FileExtension \in TEXT_FILE_EXTENSIONS =>
              (built.ok <=> kw.args.modelId \in Range(TEXT_EMBEDDING_MODELS))
        /\ FileExtension \in IMAGE_FILE_EXTENSIONS =>
              (built.ok <=> kw.args.modelId \in Range(IMAGE_EMBEDDING_MODELS))
        /\ (kw.args.file = S(<<"doc", ".", "pdf">>)
            /\ kw.args.modelId = IMAGE_EMBEDDING_MODELS[1]) => ~built.ok
        /\ (kw.args.file = S(<<"photo", ".", "jpg">>)
            /\ kw.args.modelId = IMAGE_EMBEDDING_MODELS[1]) => built.ok

\* 'photo.jpg' with 'amazon.titan-embed-image-v1' has been accepted
C8_Witness ==
    /\ Constructed
    /\ FileRequest
    /\ "modelId" \in DOMAIN kw.args
    /\ kw.args.file = S(<<"photo", ".", "jpg">>)
    /\ kw.args.modelId = IMAGE_EMBEDDING_MODELS[1]
    /\ built.ok

UnsupportedExtension == FileExtension \notin TEXT_FILE_EXTENSIONS \cup IMAGE_FILE_EXTENSIONS

\* C9 as stated: a file whose extension is in neither extension set is rejected whatever
\* the modelId, also when modelId is left to its default.
C9_UnsupportedExtensionAlwaysRejected ==
    (Constructed /\ FileRequest /\ UnsupportedExtension /\ Len(kw.args.file.s) > 0
     /\ ("modelId" \in DOMAIN kw.args =>
            kw.args.modelId \in Range(TEXT_EMBEDDING_MODELS \o IMAGE_EMBEDDING_MODELS)))
        => ~built.ok

\* C9 amended: a file whose extension is in neither extension set is rejected whenever a
\* modelId is given with a non-empty path; it is accepted when modelId is omitted, and
\* when the path is empty and the modelId an allowed one.
C9_UnsupportedExtensionRejectedWithExplicitModel ==
    (Constructed /\ FileRequest /\ UnsupportedExtension) =>
        (built.ok <=>
            \/ "modelId" \notin DOMAIN kw.args
            \/ /\ Len(kw.args.file.s) = 0
               /\ kw.args.modelId \in Range(TEXT_EMBEDDING_MODELS \o IMAGE_EMBEDDING_MODELS))

\* 'photo.unknownext' without a modelId has been accepted
C9_Witness ==
    /\ Constructed
    /\ FileRequest
    /\ kw.args.file = S(<<"photo", ".", "unknownext">>)
    /\ "modelId" \notin DOMAIN kw.args
    /\ built.ok

-----------------------------------------------------------------------------
(* Properties of the server, checked under Spec *)

\* the invocation was an embed_and_query whose body ran and assembled a command
IsQuery(inv) == inv.tool = "embed_and_query" /\ inv.outcome # "ValidationError"

\* what follows ['s3vectors-embed'] + S3_VECTORS_GLOBAL_CONFIG + ['query'] + args in a query's command
OptionalPart(argv) ==
    SubSeq(argv, Len(S3_VECTORS_GLOBAL_CONFIG) + Len(embed_and_query_args(EmbedAndQueryTextRequest(RequiredOnly).val)) + 3,
           Len(argv))

OptionNames ==
    {L("--k"), L("--filter"), L("--return-metadata"), L("--return-distance"), L("--output")}

\* the option names that occur in the optional part of a command
OptionsIn(argv) == Range(OptionalPart(argv)) \cap OptionNames

\* the optional part holds one '--k' entry, with the request's own topK, and no optional
\* argument of another invocation
OnlyOwnOptions(inv) ==
    /\ OptionalPart(inv.argv) = query_optional_args(inv.request)
    /\ Cardinality({i \in DOMAIN OptionalPart(inv.argv) :
                       OptionalPart(inv.argv)[i] = L("--k")}) = 1

\* C1: of two consecutive embed_and_query invocations with different topK values, the
\* argument list of each holds only its own topK and none of the other's optional arguments.
C1_QueriesHaveIndependentArguments ==
    [][(IsQuery(last) /\ IsQuery(last') /\ last.request.topK # last'.request.topK)
          => (OnlyOwnOptions(last) /\ OnlyOwnOptions(last'))]_vars

\* C2 as stated: a query built with only the required fields has none of the five optional
\* arguments in its command, and with returnDistance=true alone only --return-distance.
C2_NoOptionalArgumentsUnlessSet ==
    IsQuery(last) =>
        /\ last.kwargs = RequiredOnly => OptionsIn(last.argv) = {}
        /\ last.kwargs = RequiredOnly @@ [returnDistance |-> PyBool(TRUE)]
              => OptionsIn(last.argv) = {L("--return-distance")}

\* C2 amended: a query built with only the required fields carries the defaults topK '5' and
\* output 'json', and appends exactly --k 5 --output json to the optional arguments already
\* accumulated; with returnDistance=true alone it appends --k 5 --return-distance --output json.
C2_DefaultsAreAppended ==
    [][IsQuery(last') =>
          LET before == s3_vectors_query_optional_config
              after == s3_vectors_query_optional_config'
          IN  /\ last'.kwargs = RequiredOnly =>
                    /\ after = before \o <<L("--k"), L("5"), L("--output"), L("json")>>
                    /\ OptionalPart(last'.argv) = after
              /\ last'.kwargs = RequiredOnly @@ [returnDistance |-> PyBool(TRUE)] =>
                    /\ after = before \o <<L("--k"), L("5"), L("--return-distance"),
                                           L("--output"), L("json")>>
                    /\ OptionalPart(last'.argv) = after]_vars

\* a first query with returnDistance=true alone has run: its optional arguments are
\* --k 5 --return-distance --output json
C2_Witness ==
    /\ IsQuery(last)
    /\ last.kwargs = RequiredOnly @@ [returnDistance |-> PyBool(TRUE)]
    /\ nqueries = 1
    /\ OptionalPart(last.argv) =
          <<L("--k"), L("5"), L("--return-distance"), L("--output"), L("json")>>

ProcessTools ==
    {"embed_and_store_text", "embed_and_store_file", "embed_and_store_s3_objects",
     "embed_and_query"}

\* the invocation raised an error that holds the process's captured standard error
CarriesStandardError(inv) ==
    /\ inv.outcome = "raised"
    /\ "stderr" \in DOMAIN inv.ret
    /\ inv.ret.stderr = inv.process.stderr

\* C3: when the s3vectors-embed process exits with a non-zero status, the tool's outcome is
\* an error carrying the captured standard error; it never returns a value made from stdout.
C3_NonZeroExitIsAnError ==
    (last.tool \in ProcessTools /\ last.started /\ last.process.returncode # 0)
        => (last.outcome # "returned" /\ CarriesStandardError(last))

\* C5: with a valid bucket name and encryptionConfiguration omitted or an empty mapping, the
\* validated request and the create_vector_bucket call carry exactly {sseType: 'AES256'}.
C5_EncryptionDefaultsToAES256 ==
    (/\ last.tool = "create_vector_bucket"
     /\ "vectorBucketName" \in DOMAIN last.kwargs
     /\ last.kwargs.vectorBucketName = GoodBucket
     /\ \/ "encryptionConfiguration" \notin DOMAIN last.kwargs
        \/ last.kwargs.encryptionConfiguration = PyDict(EmptyFn))
        => /\ last.outcome # "ValidationError"
           /\ last.request.encryptionConfiguration = PyDict([sseType |-> AES256])
           /\ last.api[1].kwargs.encryptionConfiguration = PyDict([sseType |-> AES256])

\* C10: an invocation whose input fails validation makes no vector-storage API call, starts
\* no process, and leaves the cached client and the accumulator lists as they were.
C10_ValidationPrecedesEffects ==
    [][last'.outcome = "ValidationError" =>
          /\ last'.api = <<>>
          /\ ~last'.started
          /\ last'.argv = <<>>
          /\ procvars' = procvars]_vars

\* an embed_and_query with an invalid bucket name has been rejected after earlier queries
\* had filled the accumulator list
C10_Witness ==
    /\ last.tool = "embed_and_query"
    /\ last.outcome = "ValidationError"
    /\ last.kwargs.vectorBucketName = BadName
    /\ Len(s3_vectors_query_optional_config) > 0

\* the invocation failed: the API or the launch raised, or the process exited with an error
Failed(inv) ==
    \/ inv.outcome = "raised"
    \/ inv.started /\ inv.process.returncode # 0

\* C11: a failed invocation is isolated to its request: it leaves the process-wide state as
\* it was, and a query that follows it assembles its own arguments and starts its process.
C11_FailureIsIsolated ==
    [][/\ Failed(last') => procvars' = procvars
       /\ (Failed(last) /\ IsQuery(last') /\ launches(query_optional_args(last'.request)))
             => (last'.started /\ launches(last'.argv))]_vars

-----------------------------------------------------------------------------
(* helpers.get_s3_vectors_client called again and again while the environment changes *)

\* os.environ as get_s3_vectors_client reads it: AWS_REGION and AWS_PROFILE set or not
ClientEnvirons ==
    {r @@ p : r \in {EmptyFn, [AWS_REGION |-> L("eu-west-1")], [AWS_REGION |-> L("ap-south-1")]},
              p \in {EmptyFn, [AWS_PROFILE |-> L("dev")], [AWS_PROFILE |-> L("prod")],
                     [AWS_PROFILE |-> S(<<>>)]}}

InitClient ==
    /\ pc = "start"
    /\ environ \in ClientEnvirons
    /\ s3_vectors_client = PyNone
    /\ s3_vectors_global_config = <<>>
    /\ s3_vectors_query_optional_config = <<>>
    /\ nqueries = 0
    /\ last = NoInvocation
    /\ kw = NoInput
    /\ built = NotBuilt
    /\ sessions = 0
    /\ tasks = <<>>
    /\ nglobal = 0
    /\ simple_server = NotImported

\* the region or the profile variable is set, changed or unset between two calls
setenv ==
    /\ \E env \in ClientEnvirons \ {environ} : environ' = env
    /\ UNCHANGED <<pc, procvars, nqueries, last, kw, nglobal, simple_server, built, sessions, tasks>>

\* a variant that binds the cache before the failing step: a call that raises leaves a
\* handle behind
call_get_s3_vectors_client_caching_failure ==
    /\ \/ /\ s3_vectors_client' = get_s3_vectors_client(s3_vectors_client, environ)
          /\ sessions' = IF s3_vectors_client = PyNone THEN sessions + 1 ELSE sessions
          /\ last' = [NoInvocation EXCEPT !.tool = "get_s3_vectors_client",
                                          !.kwargs = environ,
                                          !.outcome = "returned",
                                          !.ret = s3_vectors_client']
       \/ /\ s3_vectors_client = PyNone
          /\ s3_vectors_client' = get_s3_vectors_client(PyNone, environ)
          /\ last' = [NoInvocation EXCEPT !.tool = "get_s3_vectors_client",
                                          !.kwargs = environ,
                                          !.outcome = "raised",
                                          !.ret = Exc("Exception")]
          /\ UNCHANGED sessions
    /\ UNCHANGED <<pc, environ, s3_vectors_global_config, s3_vectors_query_optional_config,
                   nqueries, kw, nglobal, simple_server, built, tasks>>

\* get_s3_vectors_client(): returns the handle, or logs and re-raises what building it raised
\* (last.kwargs holds the environment the call ran under)
call_get_s3_vectors_client ==
    /\ \/ /\ s3_vectors_client' = get_s3_vectors_client(s3_vectors_client, environ)
          /\ sessions' = IF s3_vectors_client = PyNone THEN sessions + 1 ELSE sessions
          /\ last' = [NoInvocation EXCEPT !.tool = "get_s3_vectors_client",
                                          !.kwargs = environ,
                                          !.outcome = "returned",
                                          !.ret = s3_vectors_client']
       \/ /\ s3_vectors_client = PyNone
          /\ last' = [NoInvocation EXCEPT !.tool = "get_s3_vectors_client",
                                          !.kwargs = environ,
                                          !.outcome = "raised",
                                          !.ret = Exc("Exception")]
          /\ UNCHANGED <<s3_vectors_client, sessions>>
    /\ UNCHANGED <<pc, environ, s3_vectors_global_config, s3_vectors_query_optional_config,
                   nqueries, kw, nglobal, simple_server, built, tasks>>

NextClient ==
    \/ setenv
    \/ call_get_s3_vectors_client

SpecClient == InitClient /\ [][NextClient]_vars

\* the environment names another region or profile than the cached handle was built with
EnvironmentMovedOn ==
    /\ s3_vectors_client # PyNone
    /\ get_s3_vectors_client(PyNone, environ) # s3_vectors_client

\* C12: the API handle is created at most once per process: once a call has succeeded, every
\* later call returns that same handle and builds no session, whatever the environment is now.
C12_ClientCreatedAtMostOnce ==
    [][s3_vectors_client # PyNone =>
          /\ s3_vectors_client' = s3_vectors_client
          /\ sessions' = sessions
          /\ sessions = 1
          /\ last' # last => (last'.outcome = "returned" /\ last'.ret = s3_vectors_client)]_vars

\* a call has returned the cached handle after the environment had changed under it
C12_Witness ==
    /\ EnvironmentMovedOn
    /\ last.tool = "get_s3_vectors_client"
    /\ last.kwargs = environ
    /\ last.outcome = "returned"
    /\ last.ret = s3_vectors_client
    /\ sessions = 1

-----------------------------------------------------------------------------
(* Further properties of the server, checked under Spec *)

Subcommand(tool) == IF tool = "embed_and_query" THEN L("query") ELSE L("put")

\* C13: every command line is ['s3vectors-embed'] + global flags + [sub-command] + operation
\* arguments; the sub-command is 'put' for the three store tools and 'query' for
\* embed_and_query; the arguments begin with --vector-bucket-name, --index-name, --model-id
\* and the request's values.
C13_CommandLineLayout ==
    (last.tool \in ProcessTools /\ last.argv # <<>>) =>
        LET g == Len(S3_VECTORS_GLOBAL_CONFIG)
        IN  /\ Len(last.argv) >= g + 8
            /\ last.argv[1] = L("s3vectors-embed")
            /\ SubSeq(last.argv, 2, g + 1) = S3_VECTORS_GLOBAL_CONFIG
            /\ last.argv[g + 2] = Subcommand(last.tool)
            /\ SubSeq(last.argv, g + 3, g + 8) =
                  <<L("--vector-bucket-name"), last.request.vectorBucketName,
                    L("--index-name"), last.request.indexName,
                    L("--model-id"), last.request.modelId>>

\* embed_and_store_file has run 'put' with the global flags --debug --profile --region
C13_Witness ==
    /\ last.tool = "embed_and_store_file"
    /\ last.started
    /\ Len(S3_VECTORS_GLOBAL_CONFIG) = 5
    /\ last.argv[Len(S3_VECTORS_GLOBAL_CONFIG) + 2] = L("put")

\* the option name occurs in the list
Included(o, name) == \E i \in DOMAIN o : o[i] = name

\* every occurrence of the first option name precedes every occurrence of the second
Precedes(o, a, b) == \A i, j \in DOMAIN o : (o[i] = a /\ o[j] = b) => i < j

\* every occurrence of the option name is immediately followed by the value
FollowedBy(o, name, value) ==
    \A i \in DOMAIN o : o[i] = name => (i < Len(o) /\ o[i + 1] = value)

\* C14: in the optional-argument list built for a query request, each of topK, filter,
\* returnMetadata, returnDistance, output is included if and only if it is truthy in that
\* request, in the order --k, --filter, --return-metadata, --return-distance, --output,
\* each value-carrying option immediately followed by its value.
C14_OptionsIncludedIffTruthyInOrder ==
    IsQuery(last) =>
        LET o == OptionalPart(last.argv)
            r == last.request
            order == <<L("--k"), L("--filter"), L("--return-metadata"),
                       L("--return-distance"), L("--output")>>
        IN  /\ Included(o, L("--k")) <=> Truthy(r.topK)
            /\ Included(o, L("--filter")) <=> Truthy(r.filter)
            /\ Included(o, L("--return-metadata")) <=> Truthy(r.returnMetadata)
            /\ Included(o, L("--return-distance")) <=> Truthy(r.returnDistance)
            /\ Included(o, L("--output")) <=> Truthy(r.output)
            /\ \A a, b \in DOMAIN order : a < b => Precedes(o, order[a], order[b])
            /\ FollowedBy(o, L("--k"), r.topK)
            /\ FollowedBy(o, L("--filter"), r.filter)
            /\ FollowedBy(o, L("--output"), r.output)

ApiTools ==
    {"create_vector_bucket", "list_vector_buckets", "get_vector_bucket", "create_index",
     "get_index", "list_indexes", "list_vectors"}

\* C15: a direct-API tool invokes exactly one API operation, of its own name, with exactly
\* the validated request's fields whose value is not None as keyword arguments, and returns
\* the operation's response as it is.
C15_ApiCallForwardsSetFields ==
    (last.tool \in ApiTools /\ last.outcome # "ValidationError") =>
        /\ Len(last.api) = 1
        /\ last.api[1].op = last.tool
        /\ DOMAIN last.api[1].kwargs = {f \in DOMAIN last.request : last.request[f] # PyNone}
        /\ \A f \in DOMAIN last.api[1].kwargs : last.api[1].kwargs[f] = last.request[f]
        /\ ~last.started
        /\ last.ret \in ApiResults
        /\ last.outcome = "returned" <=> last.ret = Response

\* create_index has returned the API's response after a call without the unset vectorBucketArn
C15_Witness ==
    /\ last.tool = "create_index"
    /\ last.outcome = "returned"
    /\ last.request.vectorBucketArn = PyNone
    /\ "vectorBucketArn" \notin DOMAIN last.api[1].kwargs
    /\ "dimension" \in DOMAIN last.api[1].kwargs
    /\ last.ret = Response

-----------------------------------------------------------------------------
(* Further properties of the request models, checked under SpecModels *)

\* a CreateIndexRequest whose other arguments are valid
OnlyDistanceMetricVaries ==
    /\ kw.cls = "CreateIndexRequest"
    /\ \A f \in DOMAIN BaseArgs("CreateIndexRequest") :
          f \in DOMAIN kw.args /\ kw.args[f] = BaseArgs("CreateIndexRequest")[f]
    /\ DOMAIN kw.args \subseteq DOMAIN BaseArgs("CreateIndexRequest") \cup {"distanceMetric"}

\* C16: a create_index request is accepted only with the distance metric 'euclidean' or
\* 'cosine'; any other value is a validation error, and an omitted metric defaults to 'cosine'.
C16_DistanceMetricIsValidated ==
    (Constructed /\ OnlyDistanceMetricVaries) =>
        IF "distanceMetric" \in DOMAIN kw.args
        THEN built.ok <=> kw.args.distanceMetric \in VALID_DISTANCE_METRICS
        ELSE built.ok /\ built.val.distanceMetric = L("cosine")

\* C17: a ListVectorsRequest that supplies just a valid bucket name and index name is
\* accepted, and the fields not supplied are None in it.
C17_ListVectorsNeedsOnlyNames ==
    (Constructed /\ kw.cls = "ListVectorsRequest" /\ kw.args = BucketIndex) =>
        /\ built.ok
        /\ \A f \in {"maxResults", "nextToken", "segmentCount", "segmentIndex", "returnData",
                     "returnMetadata"} : built.val[f] = PyNone

-----------------------------------------------------------------------------
(* Properties of pagination and of decoding, checked under Spec *)

ListTools == {"list_vector_buckets", "list_indexes", "list_vectors"}

\* C18: a pagination token supplied to a list operation is forwarded to the API as the
\* nextToken argument, with the identical string value the caller supplied.
C18_TokenForwardedUnchanged ==
    (/\ last.tool \in ListTools
     /\ last.api # <<>>
     /\ "nextToken" \in DOMAIN last.kwargs
     /\ IsDict(last.kwargs.nextToken)) =>
        /\ "nextToken" \in DOMAIN last.api[1].kwargs
        /\ last.api[1].kwargs.nextToken = last.kwargs.nextToken.d.nextToken

\* C20: for embed_and_store_text and embed_and_store_file, when the process's standard output
\* cannot be decoded into a structured value, whatever the failure, the tool returns the raw
\* decoded stdout text and raises nothing.
C20_DecodeFailureFallsBackToText ==
    (/\ last.tool \in {"embed_and_store_text", "embed_and_store_file"}
     /\ last.started
     /\ eval(last.process.stdout).t = "exc") =>
        /\ last.outcome = "returned"
        /\ last.ret = decode(last.process.stdout)

-----------------------------------------------------------------------------
(* server.py under mcp.run: several tool invocations pending on the one event loop.  *)
(* Every tool is an `async def` whose body holds no await: once the loop's thread    *)
(* enters a body it stays in it, through the synchronous subprocess.run or s3v call, *)
(* until the body returns.                                                           *)

LoopTools == {"embed_and_store_text", "embed_and_query", "list_vectors"}

\* the validated requests of the pending embed_and_query invocations: topK given, or
\* returnDistance given and topK left at its default
LoopRequests ==
    {EmbedAndQueryTextRequest(k).val :
        k \in {RequiredOnly @@ [topK |-> L("3")],
               RequiredOnly @@ [returnDistance |-> PyBool(TRUE)]}}

InitLoop ==
    /\ pc = "serving"
    /\ environ = EmptyFn
    /\ s3_vectors_client = get_s3_vectors_client(PyNone, EmptyFn)
    /\ s3_vectors_global_config = get_s3vectors_cli_global_config(<<>>, EmptyFn)
    /\ s3_vectors_query_optional_config = <<>>
    /\ nqueries = 0
    /\ last = NoInvocation
    /\ kw = NoInput
    /\ built = NotBuilt
    /\ sessions = 1
    /\ tasks \in [1..MaxTasks ->
                    {[tool |-> "embed_and_query", at |-> "pending", request |-> r,
                      order |-> 0, argv |-> <<>>] : r \in LoopRequests}
                    \cup {[tool |-> tl, at |-> "pending", request |-> NoRequest,
                           order |-> 0, argv |-> <<>>] :
                             tl \in LoopTools \ {"embed_and_query"}}]
    /\ nglobal = 1
    /\ simple_server = NotImported

\* the loop's thread is inside no tool body
LoopIdle == \A i \in DOMAIN tasks : tasks[i].at # "blocked"

\* a variant with a suspension point in the body: the loop may start an invocation while
\* another one is inside its call
enter_body_interleaved(i) ==
    /\ tasks[i].at = "pending"
    /\ IF tasks[i].tool = "embed_and_query"
       THEN LET config == get_s3vectors_query_optional_config(
                              s3_vectors_query_optional_config, tasks[i].request)
            IN  /\ s3_vectors_query_optional_config' = config
                /\ nqueries' = nqueries + 1
                /\ tasks' = [tasks EXCEPT
                                ![i].at = "blocked",
                                ![i].order = nqueries + 1,
                                ![i].argv = command_line("query",
                                                embed_and_query_args(tasks[i].request))
                                            \o config]
       ELSE /\ tasks' = [tasks EXCEPT ![i].at = "blocked"]
            /\ UNCHANGED <<s3_vectors_query_optional_config, nqueries>>
    /\ UNCHANGED <<pc, environ, s3_vectors_client, s3_vectors_global_config, last, kw, nglobal,
                   simple_server, built, sessions>>

\* the loop's thread enters the body of a pending invocation and runs it up to its
\* synchronous call: subprocess.run(command, capture_output=True) or s3v.<operation>(...).
\* The body of embed_and_query first extends the module-level list with the request's
\* options and builds its command from the whole list; tasks[i].order is the number of
\* the query among the queries of the process, tasks[i].argv its command.
enter_body(i) ==
    /\ LoopIdle
    /\ tasks[i].at = "pending"
    /\ IF tasks[i].tool = "embed_and_query"
       THEN LET config == get_s3vectors_query_optional_config(
                              s3_vectors_query_optional_config, tasks[i].request)
            IN  /\ s3_vectors_query_optional_config' = config
                /\ nqueries' = nqueries + 1
                /\ tasks' = [tasks EXCEPT
                                ![i].at = "blocked",
                                ![i].order = nqueries + 1,
                                ![i].argv = command_line("query",
                                                embed_and_query_args(tasks[i].request))
                                            \o config]
       ELSE /\ tasks' = [tasks EXCEPT ![i].at = "blocked"]
            /\ UNCHANGED <<s3_vectors_query_optional_config, nqueries>>
    /\ UNCHANGED <<pc, environ, s3_vectors_client, s3_vectors_global_config, last, kw, nglobal,
                   simple_server, built, sessions>>

\* the synchronous call returns, the body returns its result, the thread is back in the loop
leave_body(i) ==
    /\ tasks[i].at = "blocked"
    /\ tasks' = [tasks EXCEPT ![i].at = "done"]
    /\ last' = [NoInvocation EXCEPT !.tool = tasks[i].tool, !.outcome = "returned",
                                    !.request = tasks[i].request,
                                    !.argv = tasks[i].argv,
                                    !.started = tasks[i].tool \in ProcessTools]
    /\ UNCHANGED <<pc, environ, procvars, nqueries, kw, nglobal, simple_server, built, sessions>>

\* the event loop starts one of the pending invocations
task_call == \E i \in DOMAIN tasks : enter_body(i)

\* the invocation the thread is in completes
task_return == \E i \in DOMAIN tasks : leave_body(i)

NextLoop ==
    \/ task_call
    \/ task_return

SpecLoop == InitLoop /\ [][NextLoop]_vars

\* C19: while one tool invocation is blocked in its process call or network call, any other
\* pending invocation of the same server process can still start.
C19_BlockedCallBlocksOnlyItsRequest ==
    \A i, j \in DOMAIN tasks :
        (tasks[i].at = "blocked" /\ tasks[j].at = "pending") => ENABLED enter_body(j)

-----------------------------------------------------------------------------
(* helpers.py: the two list helpers called repeatedly in one process.        *)
(* SpecHelpers draws the environment once and then calls                     *)
(* get_s3vectors_cli_global_config and get_s3vectors_query_optional_config   *)
(* any number of times; `last` records the call and the list it returned.    *)

\* calls of get_s3vectors_cli_global_config in one run
MaxGlobalCalls == 2

\* os.environ: DEBUG_FLAG unset, '0' or '1'; AWS_PROFILE unset, empty or a name;
\* AWS_REGION unset or a region
HelperEnvirons ==
    {d @@ p @@ r :
        d \in {EmptyFn, [DEBUG_FLAG |-> L("0")], [DEBUG_FLAG |-> L("1")]},
        p \in {EmptyFn, [AWS_PROFILE |-> S(<<>>)], [AWS_PROFILE |-> L("dev")]},
        r \in {EmptyFn, [AWS_REGION |-> L("eu-west-1")]}}

\* the requests handed to get_s3vectors_query_optional_config: topK left at its default,
\* topK given, topK None
HelperRequests ==
    {EmbedAndQueryTextRequest(k).val :
        k \in {RequiredOnly,
               RequiredOnly @@ [topK |-> L("3")],
               RequiredOnly @@ [topK |-> PyNone, returnDistance |-> PyBool(TRUE)]}}

InitHelpers ==
    /\ pc = "start"
    /\ environ \in HelperEnvirons
    /\ s3_vectors_client = PyNone
    /\ s3_vectors_global_config = <<>>
    /\ s3_vectors_query_optional_config = <<>>
    /\ nqueries = 0
    /\ last = NoInvocation
    /\ kw = NoInput
    /\ built = NotBuilt
    /\ sessions = 0
    /\ tasks = <<>>
    /\ nglobal = 0
    /\ simple_server = NotImported

\* a call of get_s3vectors_cli_global_config()
call_get_s3vectors_cli_global_config ==
    /\ nglobal < MaxGlobalCalls
    /\ s3_vectors_global_config' =
          get_s3vectors_cli_global_config(s3_vectors_global_config, environ)
    /\ nglobal' = nglobal + 1
    /\ last' = [NoInvocation EXCEPT !.tool = "get_s3vectors_cli_global_config",
                                    !.outcome = "returned",
                                    !.argv = s3_vectors_global_config']
    /\ UNCHANGED <<pc, environ, s3_vectors_client, s3_vectors_query_optional_config, nqueries,
                   kw, built, sessions, tasks, simple_server>>

\* a call of get_s3vectors_query_optional_config(request)
call_get_s3vectors_query_optional_config ==
    /\ nqueries < MaxQueries
    /\ \E r \in HelperRequests :
          /\ s3_vectors_query_optional_config' =
                get_s3vectors_query_optional_config(s3_vectors_query_optional_config, r)
          /\ last' = [NoInvocation EXCEPT !.tool = "get_s3vectors_query_optional_config",
                                          !.request = r,
                                          !.outcome = "returned",
                                          !.argv = s3_vectors_query_optional_config']
    /\ nqueries' = nqueries + 1
    /\ UNCHANGED <<pc, environ, s3_vectors_client, s3_vectors_global_config, nglobal,
                   kw, built, sessions, tasks, simple_server>>

NextHelpers ==
    \/ call_get_s3vectors_cli_global_config
    \/ call_get_s3vectors_query_optional_config

SpecHelpers == InitHelpers /\ [][NextHelpers]_vars

\* how often the option name occurs in the list
Count(o, name) == Cardinality({i \in DOMAIN o : o[i] = name})

\* the value DEBUG_FLAG has when it switches debugging off
DebugDisabled(env) == "DEBUG_FLAG" \notin DOMAIN env \/ env.DEBUG_FLAG = L("0")

\* C21: the global flag list built from the environment contains '--region <value>', with
\* 'us-east-1' when AWS_REGION is unset, contains '--profile <name>' exactly when
\* AWS_PROFILE is a non-empty name, contains '--debug' exactly when the debug flag is
\* enabled (not when DEBUG_FLAG is unset or '0'), in the order --debug, --profile, --region.
C21_GlobalFlagsFollowEnvironment ==
    (last.tool = "get_s3vectors_cli_global_config" /\ nglobal = 1) =>
        LET g == last.argv
            region == GetOr(environ, "AWS_REGION", L("us-east-1"))
            profile == Get(environ, "AWS_PROFILE")
        IN  /\ Included(g, L("--region")) /\ FollowedBy(g, L("--region"), region)
            /\ Included(g, L("--profile")) <=> Truthy(profile)
            /\ FollowedBy(g, L("--profile"), profile)
            /\ Included(g, L("--debug")) <=> ~DebugDisabled(environ)
            /\ Precedes(g, L("--debug"), L("--profile"))
            /\ Precedes(g, L("--profile"), L("--region"))
            /\ Precedes(g, L("--debug"), L("--region"))

-----------------------------------------------------------------------------
(* claims about the models of the file and S3 sources *)

\* the model list of a modality
ModelsOf(modality) ==
    IF modality = MODALITIES[1]
    THEN Range(TEXT_EMBEDDING_MODELS)
    ELSE Range(IMAGE_EMBEDDING_MODELS)

\* C22: in every accepted EmbedAndStoreFileRequest and EmbedAndStoreS3ObjectsRequest the
\* modelId belongs to the model list of the request's modality (the flag emitted) and to
\* the model list of the content type derived from the extension of the source.
C22_ModelMatchesModalityAndExtension ==
    (Constructed /\ built.ok
     /\ kw.cls \in {"EmbedAndStoreFileRequest", "EmbedAndStoreS3ObjectsRequest"}) =>
        LET r == built.val
            source == IF kw.cls = "EmbedAndStoreFileRequest" THEN r.file.s ELSE r.s3_path.s
            ext == lower(splitext_ext(source))
        IN  /\ r.modelId \in ModelsOf(r.modality)
            /\ ext \in TEXT_FILE_EXTENSIONS => r.modelId \in Range(TEXT_EMBEDDING_MODELS)
            /\ ext \in IMAGE_FILE_EXTENSIONS => r.modelId \in Range(IMAGE_EMBEDDING_MODELS)

-----------------------------------------------------------------------------
(* claims about the tools of server.py *)

\* a create_index invocation that gave only the names and a dimension in range
OnlyNamesAndDimension(inv) ==
    /\ inv.tool = "create_index"
    /\ DOMAIN inv.kwargs = {"vectorBucketName", "indexName", "dimension"}
    /\ inv.kwargs.vectorBucketName = GoodBucket
    /\ inv.kwargs.indexName = GoodIndex
    /\ inv.kwargs.dimension \in {PyInt(n) : n \in 1..4096}

\* C24: a create_index request that gives only bucket name, index name and a dimension in
\* range reaches the API with dataType 'float32', distanceMetric 'cosine' and
\* metadataConfiguration {'nonFilterableMetadataKeys': ['S3VECTORS-EMBED-SRC-CONTENT',
\* 'S3VECTORS-EMBED-SRC-LOCATION']}, whatever the earlier requests were.
C24_CreateIndexDefaultsForwarded ==
    OnlyNamesAndDimension(last) =>
        /\ Len(last.api) = 1
        /\ last.api[1].op = "create_index"
        /\ last.api[1].kwargs =
              [vectorBucketName |-> last.kwargs.vectorBucketName,
               indexName |-> last.kwargs.indexName,
               dimension |-> last.kwargs.dimension,
               dataType |-> L("float32"),
               distanceMetric |-> L("cosine"),
               metadataConfiguration |->
                   PyDict([nonFilterableMetadataKeys |->
                             <<L("S3VECTORS-EMBED-SRC-CONTENT"),
                               L("S3VECTORS-EMBED-SRC-LOCATION")>>])]

\* create_index has been called with only the names and dimension 1024 and has returned
C24_Witness ==
    /\ OnlyNamesAndDimension(last)
    /\ last.kwargs.dimension = PyInt(1024)
    /\ last.outcome = "returned"
    /\ Len(last.api) = 1

\* an embed_and_store_file invocation that gave valid names and a file path, nothing else
OnlyNamesAndFile(inv) ==
    /\ inv.tool = "embed_and_store_file"
    /\ DOMAIN inv.kwargs = {"vectorBucketName", "indexName", "file"}
    /\ inv.kwargs.vectorBucketName = GoodBucket
    /\ inv.kwargs.indexName = GoodIndex
    /\ IsStr(inv.kwargs.file)

\* C25: an EmbedAndStoreFileRequest without modelId is accepted for any file path, also a
\* wildcard pattern or an s3:// URI whose extension is in neither extension set, and is
\* sent to the CLI with the model 'amazon.titan-embed-text-v2:0' under the flag '--text'.
C25_NoModelIdMeansDefaultTextModel ==
    OnlyNamesAndFile(last) =>
        /\ last.outcome # "ValidationError"
        /\ last.argv =
              <<L("s3vectors-embed")>> \o S3_VECTORS_GLOBAL_CONFIG
              \o <<L("put"),
                   L("--vector-bucket-name"), last.kwargs.vectorBucketName,
                   L("--index-name"), last.kwargs.indexName,
                   L("--model-id"), L("amazon.titan-embed-text-v2:0"),
                   S(<<"--", "text">>), last.kwargs.file>>

\* embed_and_store_file has sent 's3://bucket/text/*', whose extension is in neither set,
\* given without a modelId
C25_Witness ==
    /\ OnlyNamesAndFile(last)
    /\ last.kwargs.file = S(<<"s3:", "/", "/", "bucket", "/", "text", "/", "*">>)
    /\ lower(splitext_ext(last.kwargs.file.s)) \notin
          TEXT_FILE_EXTENSIONS \cup IMAGE_FILE_EXTENSIONS
    /\ last.started

-----------------------------------------------------------------------------
(* claims about the module-level lists of helpers.py *)

\* the first list is the beginning of the second
IsPrefix(a, b) == Len(a) <= Len(b) /\ SubSeq(b, 1, Len(a)) = a

-----------------------------------------------------------------------------
(* The simplified server (src/s3-vectors-mcp/awslabs/s3_vectors_mcp_server/   *)
(* server.py): the import of the module statement by statement, then calls   *)
(* of its tools and of main().  simple_server.FastMCP is the class the name  *)
(* FastMCP is bound to, simple_server.mcp the class of the module-level mcp  *)
(* object, simple_server.tools the functions decorated so far, in order.     *)
(* pc is "start", "bound" (the try statement is done), "decorating" (mcp     *)
(* exists), "loaded" (the import is done), "serving" (run() is serving) or   *)
(* "crashed" (a statement of the import raised).                             *)

\* the functions under @mcp.tool(), in the order of the module, each with its parameters
\* as triples <<parameter, keyword passed to the client, default>>: `required` are always
\* passed, `defaulted` are passed with their default when not given, `optional` are
\* passed only when truthy
simple_tools ==
    <<[name |-> "list_vector_buckets", required |-> <<>>, defaulted |-> <<>>,
       optional |-> <<<<"next_token", "nextToken", PyNone>>>>],
      [name |-> "create_vector_bucket",
       required |-> <<<<"bucket_name", "bucketName", PyNone>>>>, defaulted |-> <<>>,
       optional |-> <<<<"kms_key_id", "kmsKeyId", PyNone>>>>],
      [name |-> "get_vector_bucket",
       required |-> <<<<"bucket_name", "bucketName", PyNone>>>>, defaulted |-> <<>>,
       optional |-> <<>>],
      [name |-> "list_indexes",
       required |-> <<<<"bucket_name", "bucketName", PyNone>>>>, defaulted |-> <<>>,
       optional |-> <<<<"next_token", "nextToken", PyNone>>>>],
      [name |-> "create_index",
       required |-> <<<<"bucket_name", "bucketName", PyNone>>,
                      <<"index_name", "indexName", PyNone>>,
                      <<"dimensions", "dimensions", PyNone>>>>,
       defaulted |-> <<<<"similarity", "similarity", L("COSINE")>>>>,
       optional |-> <<<<"filterable_metadata", "filterableMetadata", PyNone>>>>],
      [name |-> "get_index",
       required |-> <<<<"bucket_name", "bucketName", PyNone>>,
                      <<"index_name", "indexName", PyNone>>>>,
       defaulted |-> <<>>, optional |-> <<>>],
      [name |-> "list_vectors",
       required |-> <<<<"bucket_name", "bucketName", PyNone>>,
                      <<"index_name", "indexName", PyNone>>>>,
       defaulted |-> <<<<"include_data", "includeData", PyBool(FALSE)>>,
                       <<"include_metadata", "includeMetadata", PyBool(FALSE)>>>>,
       optional |-> <<<<"next_token", "nextToken", PyNone>>>>],
      [name |-> "embed_and_store_text",
       required |-> <<<<"bucket_name", "bucketName", PyNone>>,
                      <<"index_name", "indexName", PyNone>>,
                      <<"text", "text", PyNone>>>>,
       defaulted |-> <<>>, optional |-> <<<<"metadata", "metadata", PyNone>>>>],
      [name |-> "embed_and_store_file",
       required |-> <<<<"bucket_name", "bucketName", PyNone>>,
                      <<"index_name", "indexName", PyNone>>,
                      <<"file_path", "filePath", PyNone>>>>,
       defaulted |-> <<>>, optional |-> <<<<"metadata", "metadata", PyNone>>>>],
      [name |-> "embed_and_store_s3_objects",
       required |-> <<<<"bucket_name", "bucketName", PyNone>>,
                      <<"index_name", "indexName", PyNone>>,
                      <<"s3_uri_prefix", "s3UriPrefix", PyNone>>>>,
       defaulted |-> <<>>, optional |-> <<<<"metadata", "metadata", PyNone>>>>],
      [name |-> "embed_and_query_text",
       required |-> <<<<"bucket_name", "bucketName", PyNone>>,
                      <<"index_name", "indexName", PyNone>>,
                      <<"text", "text", PyNone>>>>,
       defaulted |-> <<<<"top_k", "topK", PyInt(5)>>>>, optional |-> <<>>],
      [name |-> "embed_and_query_file",
       required |-> <<<<"bucket_name", "bucketName", PyNone>>,
                      <<"index_name", "indexName", PyNone>>,
                      <<"file_path", "filePath", PyNone>>>>,
       defaulted |-> <<<<"top_k", "topK", PyInt(5)>>>>, optional |-> <<>>]>>

\* the keyword arguments the tool's body passes to the client: params, or the keywords
\* written in the call
simple_params(t, a) ==
    LET always == Range(t.required) \cup Range(t.defaulted)
        given == {p \in Range(t.optional) : Truthy(Get(a, p[1]))}
        passed == always \cup given
    IN  [x \in {p[2] : p \in passed} |->
            LET p == CHOOSE q \in passed : q[2] = x
            IN  GetOr(a, p[1], p[3])]

\* the value drawn for each parameter of a tool
SimpleValues ==
    [bucket_name |-> GoodBucket, index_name |-> GoodIndex, dimensions |-> PyInt(1024),
     text |-> L("query text"), file_path |-> S(<<"photo", ".", "jpg">>),
     s3_uri_prefix |-> S(<<"s3:", "/", "/", "bucket", "/", "docs", "/">>),
     next_token |-> L("opaque-token"), kms_key_id |-> L("key-id"),
     filterable_metadata |-> PyNone, metadata |-> PyDict([category |-> L("story")]),
     similarity |-> L("EUCLIDEAN"), include_data |-> PyBool(TRUE),
     include_metadata |-> PyBool(TRUE), top_k |-> PyInt(3)]

\* the arguments drawn for a tool: every required parameter; the optional parameter left
\* out, None or given; the defaulted parameters left out or given
SimpleArgs(t) ==
    LET names(q) == {p[1] : p \in Range(q)}
        req == [x \in names(t.required) |-> SimpleValues[x]]
    IN  {req @@ o @@ d :
            o \in {EmptyFn} \cup {[x \in names(t.optional) |-> PyNone],
                                  [x \in names(t.optional) |-> SimpleValues[x]]},
            d \in {EmptyFn, [x \in names(t.defaulted) |-> SimpleValues[x]]}}

InitSimple ==
    /\ pc = "start"
    /\ environ = EmptyFn
    /\ s3_vectors_client = PyNone
    /\ s3_vectors_global_config = <<>>
    /\ s3_vectors_query_optional_config = <<>>
    /\ nqueries = 0
    /\ last = NoInvocation
    /\ kw = NoInput
    /\ built = NotBuilt
    /\ sessions = 0
    /\ tasks = <<>>
    /\ nglobal = 0
    /\ simple_server = NotImported

\* try: from mcp.server.fastmcp import FastMCP, Context
\* except Exception: class _StubMCP ...; FastMCP = _StubMCP
import_fastmcp ==
    /\ pc = "start"
    /\ \E cls \in {"FastMCP", "_StubMCP"} :
          simple_server' = [simple_server EXCEPT !.FastMCP = cls]
    /\ pc' = "bound"
    /\ UNCHANGED <<environ, procvars, nqueries, last, kw, built, sessions, tasks, nglobal>>

\* mcp = FastMCP("awslabs-s3-vectors-mcp-server", instructions=INSTRUCTIONS)
\* _StubMCP defines no __init__: called with arguments, object's __init__ raises TypeError
construct_mcp ==
    /\ pc = "bound"
    /\ IF simple_server.FastMCP = "_StubMCP"
       THEN /\ pc' = "crashed"
            /\ last' = [NoInvocation EXCEPT !.tool = "FastMCP", !.outcome = "raised",
                                            !.ret = Exc("TypeError")]
            /\ UNCHANGED simple_server
       ELSE /\ pc' = "decorating"
            /\ simple_server' = [simple_server EXCEPT !.mcp = simple_server.FastMCP]
            /\ UNCHANGED last
    /\ UNCHANGED <<environ, procvars, nqueries, kw, built, sessions, tasks, nglobal>>

\* a variant of the module that ends before its last function
decorate_tool_without_last ==
    /\ pc = "decorating"
    /\ LET n == Len(simple_server.tools) + 1
       IN  /\ simple_server' =
                 [simple_server EXCEPT !.tools = Append(@, simple_tools[n].name)]
           /\ pc' = IF n = Len(simple_tools) - 1 THEN "loaded" ELSE "decorating"
    /\ UNCHANGED <<environ, procvars, nqueries, last, kw, built, sessions, tasks, nglobal>>

\* @mcp.tool() def <name>: the next function of the module is defined and decorated; the
\* decorator hands back the function itself
decorate_tool ==
    /\ pc = "decorating"
    /\ LET n == Len(simple_server.tools) + 1
       IN  /\ simple_server' =
                 [simple_server EXCEPT !.tools = Append(@, simple_tools[n].name)]
           /\ pc' = IF n = Len(simple_tools) THEN "loaded" ELSE "decorating"
    /\ UNCHANGED <<environ, procvars, nqueries, last, kw, built, sessions, tasks, nglobal>>

\* a call of one of the decorated functions: client = _client(); return client.<name>(...)
\* (the client is built for the region that consts.DEFAULT_REGION names)
call_tool ==
    /\ pc \in {"loaded", "serving"}
    /\ \E i \in DOMAIN simple_server.tools, res \in ApiResults :
          LET t == simple_tools[i]
          IN  \E a \in SimpleArgs(t) :
                 last' = [NoInvocation EXCEPT
                             !.tool = simple_server.tools[i], !.kwargs = a,
                             !.outcome = IF res.t = "exc" THEN "raised" ELSE "returned",
                             !.api = <<[op |-> t.name,
                                        client |-> Client(L("DEFAULT_REGION"), PyNone),
                                        kwargs |-> simple_params(t, a)]>>,
                             !.ret = res]
    /\ UNCHANGED <<pc, environ, procvars, nqueries, kw, built, sessions, tasks, nglobal,
                   simple_server>>

\* main(): mcp.run(); the stub's run raises RuntimeError, FastMCP's run serves
call_run ==
    /\ pc = "loaded"
    /\ IF simple_server.mcp = "_StubMCP"
       THEN /\ last' = [NoInvocation EXCEPT !.tool = "run", !.outcome = "raised",
                                            !.ret = Exc("RuntimeError")]
            /\ UNCHANGED pc
       ELSE /\ pc' = "serving"
            /\ last' = [NoInvocation EXCEPT !.tool = "run", !.outcome = "serving"]
    /\ UNCHANGED <<environ, procvars, nqueries, kw, built, sessions, tasks, nglobal,
                   simple_server>>

NextSimple ==
    \/ import_fastmcp
    \/ construct_mcp
    \/ decorate_tool
    \/ call_tool
    \/ call_run

SpecSimple == InitSimple /\ [][NextSimple]_vars

\* the functions under @mcp.tool() in server.py of the full server (src/s3-vectors-mcp-server)
mcp_tools ==
    {"create_vector_bucket", "get_vector_bucket", "list_vector_buckets", "create_index",
     "get_index", "list_indexes", "list_vectors", "embed_and_store_text",
     "embed_and_store_file", "embed_and_store_s3_objects", "embed_and_query"}

\* the twelve entry points
TwelveOperations ==
    {"list_vector_buckets", "create_vector_bucket", "get_vector_bucket", "list_indexes",
     "create_index", "get_index", "list_vectors", "embed_and_store_text",
     "embed_and_store_file", "embed_and_store_s3_objects", "embed_and_query_text",
     "embed_and_query_file"}

\* the import of the simplified server module has run to its end
SimpleLoaded == pc \in {"loaded", "serving"}

\* C23 as stated: the functions decorated as MCP tools in the server module, the simplified
\* one and the full one alike, include the twelve entry points, embed_and_query_text and
\* embed_and_query_file among them.
C23_EveryServerRegistersTwelve ==
    SimpleLoaded =>
        /\ TwelveOperations \subseteq Range(simple_server.tools)
        /\ TwelveOperations \subseteq mcp_tools

\* C23 amended: the simplified server module decorates the twelve entry points, one
\* function each; the full server module decorates eleven, the first ten of them and a
\* single embed_and_query in place of embed_and_query_text and embed_and_query_file.
C23_SimplifiedServerRegistersTwelve ==
    /\ SimpleLoaded =>
          /\ Range(simple_server.tools) = TwelveOperations
          /\ Len(simple_server.tools) = 12
    /\ mcp_tools = (TwelveOperations \ {"embed_and_query_text", "embed_and_query_file"})
                       \cup {"embed_and_query"}

\* the simplified module is loaded and embed_and_query_file, its last tool, has been called
C23_Witness ==
    /\ SimpleLoaded
    /\ Len(simple_server.tools) = 12
    /\ last.tool = "embed_and_query_file"
    /\ last.outcome = "returned"

\* C27: when fastmcp cannot be imported the simplified server module falls back to the
\* stub class and still loads: constructing the module-level mcp object succeeds, the
\* decorated functions stay the plain callables, only run() fails, with RuntimeError.
C27_StubKeepsModuleLoadable ==
    simple_server.FastMCP = "_StubMCP" =>
        /\ pc # "crashed"
        /\ pc # "bound" => simple_server.mcp = "_StubMCP"
        /\ last.outcome = "raised" =>
              (last.tool = "run" /\ last.ret = Exc("RuntimeError"))

-----------------------------------------------------------------------------
(* a further claim about get_s3_vectors_client, checked under SpecClient *)

\* the latest call of get_s3_vectors_client raised
ClientCallRaised == last.tool = "get_s3_vectors_client" /\ last.outcome = "raised"

\* C29: when building the session or the client raises, get_s3_vectors_client hands the
\* exception on and leaves the cache None: the cache never holds a handle a failed call
\* left behind, and the next call builds again, from the environment of that call.
C29_FailedBuildLeavesCacheUnset ==
    /\ [](ClientCallRaised =>
             /\ last.ret.t = "exc"
             /\ s3_vectors_client = PyNone)
    /\ [][(ClientCallRaised /\ last'.outcome = "returned") =>
             /\ s3_vectors_client' = get_s3_vectors_client(PyNone, environ)
             /\ s3_vectors_client' # PyNone
             /\ last'.ret = s3_vectors_client'
             /\ sessions' = sessions + 1]_vars

\* a call raised under an environment with a profile and the cache is still None
C29_Witness ==
    /\ ClientCallRaised
    /\ last.kwargs = environ
    /\ Truthy(Get(environ, "AWS_PROFILE"))
    /\ s3_vectors_client = PyNone

-----------------------------------------------------------------------------
(* further claims about the running server, checked under Spec and SpecLoop *)

\* the command of the invocation starts with 's3vectors-embed', the global flag list as it
\* is now, and the subcommand
CarriesGlobalFlags(inv) ==
    /\ Len(inv.argv) >= Len(s3_vectors_global_config) + 2
    /\ inv.argv[1] = L("s3vectors-embed")
    /\ SubSeq(inv.argv, 2, Len(s3_vectors_global_config) + 1) = s3_vectors_global_config
    /\ inv.argv[Len(s3_vectors_global_config) + 2] = Subcommand(inv.tool)

\* C28: once the server is serving, no tool invocation changes the global flag list: it was
\* computed by the one call at import, every put and query command carries that same
\* sequence, and --debug, --profile and --region occur in it at most once each.
C28_GlobalFlagsFixedAfterStartup ==
    /\ [][pc = "serving" => s3_vectors_global_config' = s3_vectors_global_config]_vars
    /\ [](pc = "serving" =>
             /\ nglobal = 1
             /\ \A flag \in {L("--debug"), L("--profile"), L("--region")} :
                   Count(s3_vectors_global_config, flag) <= 1)
    /\ []((last.tool \in ProcessTools /\ last.outcome # "ValidationError") =>
             CarriesGlobalFlags(last))

\* the second query of a server started with DEBUG_FLAG, AWS_PROFILE and AWS_REGION set
\* has launched its process: its command carries each of the three flags once
C28_Witness ==
    /\ pc = "serving"
    /\ nqueries = 2
    /\ last.tool = "embed_and_query"
    /\ last.started
    /\ CarriesGlobalFlags(last)
    /\ \A flag \in {L("--debug"), L("--profile"), L("--region")} :
          Count(s3_vectors_global_config, flag) = 1

\* the embed_and_query invocations whose body has been entered
EnteredQueries ==
    {i \in DOMAIN tasks : tasks[i].tool = "embed_and_query" /\ tasks[i].at # "pending"}

\* the options of the first k queries of the process, in the order the queries were entered
RECURSIVE OptionsOfFirst(_)
OptionsOfFirst(k) ==
    IF k = 0
    THEN <<>>
    ELSE OptionsOfFirst(k - 1)
         \o query_optional_args(
                tasks[CHOOSE i \in EnteredQueries : tasks[i].order = k].request)

\* C30: a tool body has no suspension point, so invocations never interleave: from the
\* step in which embed_and_query extends the shared list and launches its process until
\* that process has completed, no other invocation takes a step and the list stays as it
\* is; the command of the k-th embed_and_query therefore holds the options of the
\* invocations 1..k, in that order, and nothing else.
C30_InvocationsNeverInterleave ==
    /\ [][\A i \in DOMAIN tasks :
             tasks[i].at = "blocked" =>
                /\ tasks'[i].at = "done"
                /\ \A j \in DOMAIN tasks \ {i} : tasks'[j] = tasks[j]
                /\ s3_vectors_query_optional_config' = s3_vectors_query_optional_config]_vars
    /\ [](\A i \in EnteredQueries :
             /\ tasks[i].order \in 1..nqueries
             /\ \A j \in EnteredQueries \ {i} : tasks[j].order # tasks[i].order
             /\ OptionalPart(tasks[i].argv) = OptionsOfFirst(tasks[i].order))

\* three queries have run one after the other; the third one's command holds the options
\* of the first, the second and its own
C30_Witness ==
    /\ Cardinality(EnteredQueries) = 3
    /\ \A i \in DOMAIN tasks : tasks[i].at = "done"
    /\ \E i \in EnteredQueries :
          /\ tasks[i].order = 3
          /\ OptionalPart(tasks[i].argv) = OptionsOfFirst(3)
          /\ Len(OptionalPart(tasks[i].argv)) > Len(query_optional_args(tasks[i].request))

====
